---- MODULE Spec2Model ----
(***************************************************************************)
(* Model of src/main.py: a FastHTML admin application that stores zip      *)
(* archives per semester in a Drive folder tree.  The state is the Drive   *)
(* (files by id), the local temp_uploads directory, the per-session admin  *)
(* flag and the clock.  Every async HTTP handler is one action whose body  *)
(* is a function from the state and the request to the state it leaves and *)
(* the response it returns; the Beforeware gate guards each admin request. *)
(* GET /admin is a sync handler run in a worker thread: it is one action   *)
(* per files().list call, so other requests interleave with its loop.      *)
(* A files().list call answers with the first page of the matching files.  *)
(* merge_zip_files is a pure operator with its own harness.                *)
(***************************************************************************)
EXTENDS Integers, Sequences, FiniteSets, TLC

VARIABLES
    drive,          \* Drive files: function from the ids that exist to file records
    nextId,         \* next Drive file id the backend will assign
    fs,             \* local files: function from the paths that exist to bytes
    tmp,            \* kinds of request-scoped temporary files left on disk
    nextToken,      \* next uuid4 token (fresh by construction)
    sess,           \* session id -> admin flag (session["admin"] == True)
    now,            \* datetime.utcnow(), in seconds
    submitted,      \* history: sessions that have posted the correct password
    resolved,       \* history: pending-upload paths that reached a terminal resolution
    zipA, zipB,     \* merge harness: the two input archives
    zipOut,         \* merge harness: [done, entries] of merge_zip_files(zipA, zipB)
    boot,           \* start-up: [phase, semester_num, semester_folders]
    conc,           \* resolve handlers in flight: [start, procs]
    folders,        \* Drive folder tree: [items, nextId], items in listing order
    dash            \* GET /admin in its worker thread: [pc, cutoff, next, all_files]

vars == <<drive, nextId, fs, tmp, nextToken, sess, now, submitted, resolved,
          zipA, zipB, zipOut, boot, conc, folders, dash>>

appVars == <<drive, nextId, fs, tmp, nextToken, sess, now, submitted, resolved>>
mergeVars == <<zipA, zipB, zipOut>>
bootVars == <<boot, conc, folders, dash>>

----------------------------------------------------------------------------
(* Bounds of the model *)

MaxFileId == 2
MaxToken == 2
MaxEntries == 2
\* files a files().list call answers in one page (the backend's default page
\* holds 100)
PageSize == 3

(* Program constants *)

ADMIN_PASSWD == "secret"
RETENTION_SECONDS == 86400
\* for semester_num in range(1, 9)
SEMESTER_COUNT == 8
MAX_UPLOAD_SIZE == 52428800

None == "None"

Falsy(v) == v \in {None, ""}

Sessions == {"s1", "s2"}
OneSession == {"s1"}
FileIds == 1..MaxFileId
Tokens == 1..MaxToken
\* Local paths a request can name: the pending uploads temp_<token>.zip
LocalPaths == Tokens

\* Instants the clock can show; they put archive ages just below, at and
\* just above the retention window.
TimePoints == {0, 1, RETENTION_SECONDS, RETENTION_SECONDS + 1}

----------------------------------------------------------------------------
(* Zip archives.  An archive is the sequence of its stored entries; a      *)
(* byte string is a well-formed zip, a zip with an unreadable entry        *)
(* ("corrupt"), or not a zip at all ("garbage").                           *)

EntryNames == {"a.txt", "b.txt"}
EntryData == {1, 2}
Entry(n, d) == [name |-> n, data |-> d]
Entries == [name : EntryNames, data : EntryData]

RECURSIVE SeqsUpTo(_, _)
SeqsUpTo(S, n) ==
    IF n = 0 THEN {<<>>}
    ELSE LET shorter == SeqsUpTo(S, n - 1)
         IN shorter \cup {Append(q, e) : q \in {r \in shorter : Len(r) = n - 1}, e \in S}

Zips == SeqsUpTo(Entries, MaxEntries)

ZipBytes(entries) == [kind |-> "zip", entries |-> entries]
CorruptBytes(entries) == [kind |-> "corrupt", entries |-> entries]
GarbageBytes == [kind |-> "garbage", entries |-> <<>>]

Max(S) == CHOOSE x \in S : \A y \in S : y <= x

\* ZipFile.namelist()
namelist(z) == [i \in 1..Len(z) |-> z[i].name]
NameSet(z) == {z[i].name : i \in 1..Len(z)}
\* number of stored entries named n
Count(z, n) == Cardinality({i \in 1..Len(z) : z[i].name = n})

\* ZipFile.read(name): NameToInfo keeps the last stored entry of a name
ZipRead(z, n) == z[Max({i \in 1..Len(z) : z[i].name = n})].data

\* the writestr loop of merge_zip_files over one source archive
CopyByName(z) == [i \in 1..Len(z) |-> Entry(z[i].name, ZipRead(z, z[i].name))]

merge_zip_files(old_zip, new_zip) == CopyByName(old_zip) \o CopyByName(new_zip)

----------------------------------------------------------------------------
(* Request inputs *)

Semesters == {"Semester_1", "Semester_2"}
BatchYears == {"2024"}
ReqSemesters == Semesters \cup {None}
ReqYears == BatchYears \cup {None}
Passwords == {ADMIN_PASSWD, "Secret", None}
Confirmations == {"DELETE", "delete", None}
ResolveActions == {"remove", "merge", "replace"}
ConfirmPairs == {<<"REMOVE", "REMOVE">>, <<"REMOVE", "">>, <<"remove", "REMOVE">>}
\* which remote call of the request the backend fails: 0 none, 1 first, 2 second
FailAt == 0..2
NoFileParam == 0
FileParams == FileIds \cup {NoFileParam}

\* payloads an admin uploads
Z1 == <<Entry("a.txt", 1)>>
Z2 == <<Entry("a.txt", 2), Entry("b.txt", 1)>>
Payloads == {ZipBytes(Z1), ZipBytes(Z2)}

ZipName == <<"x", ".", "z", "i", "p">>
UpperZipName == <<"x", ".", "Z", "I", "P">>
TxtName == <<"x", ".", "t", "x", "t">>
UploadFile(name, size, bytes) ==
    [present |-> TRUE, filename |-> name, size |-> size, bytes |-> bytes]
NoUploadFile ==
    [present |-> FALSE, filename |-> <<>>, size |-> 0, bytes |-> GarbageBytes]
UploadFiles ==
    {UploadFile(ZipName, 1, b) : b \in Payloads}
    \cup {UploadFile(UpperZipName, MAX_UPLOAD_SIZE, ZipBytes(Z1)),
          UploadFile(TxtName, 1, ZipBytes(Z1)),
          UploadFile(ZipName, MAX_UPLOAD_SIZE + 1, ZipBytes(Z1)),
          UploadFile(ZipName, 1, GarbageBytes),
          UploadFile(ZipName, 1, CorruptBytes(Z1)),
          NoUploadFile}

\* the form fields of POST /admin/upload
UploadForms == [file : UploadFiles, semester : ReqSemesters, batch_year : ReqYears]

\* the form fields of POST /admin/upload/resolve
ResolveForms ==
    {[temp |-> t, existing |-> e, action |-> a, confirm1 |-> c[1],
      confirm2 |-> c[2], semester |-> sem, batch_year |-> y] :
        t \in LocalPaths, e \in FileIds, a \in ResolveActions, c \in ConfirmPairs,
        sem \in ReqSemesters, y \in ReqYears}

\* the query parameter and form fields of POST /admin/delete
DeleteForms == [file : FileParams, confirmation : Confirmations, password : Passwords]

\* str.lower() and str.endswith() on file names
LowerChar(c) ==
    CASE c = "Z" -> "z" [] c = "I" -> "i" [] c = "P" -> "p" [] OTHER -> c
Lower(name) == [i \in 1..Len(name) |-> LowerChar(name[i])]
EndsWith(name, suffix) ==
    /\ Len(suffix) <= Len(name)
    /\ SubSeq(name, Len(name) - Len(suffix) + 1, Len(name)) = suffix
StartsWith(p, prefix) ==
    /\ Len(prefix) <= Len(p)
    /\ SubSeq(p, 1, Len(prefix)) = prefix
DOT_ZIP == <<".", "z", "i", "p">>

\* f"{batch_year}.zip"
Filename(batch_year) == <<batch_year, ".zip">>

----------------------------------------------------------------------------
(* Request paths, as sequences of segments *)

ADMIN == <<"admin">>
ADMIN_LOGIN == <<"admin", "login">>
ADMIN_UPLOAD == <<"admin", "upload">>
ADMIN_UPLOAD_RESOLVE == <<"admin", "upload", "resolve">>
ADMIN_DELETE == <<"admin", "delete">>
GatedPaths == {ADMIN, ADMIN_UPLOAD, ADMIN_UPLOAD_RESOLVE, ADMIN_DELETE}

\* a gate that guards the dashboard path only
admin_auth_before_ExactPath(path, admin) ==
    /\ path = ADMIN
    /\ admin # TRUE

\* admin_auth_before: TRUE when the request is redirected to the login page
admin_auth_before(path, admin) ==
    /\ StartsWith(path, ADMIN)
    /\ ~StartsWith(path, ADMIN_LOGIN)
    /\ admin # TRUE

\* Beforeware(admin_auth_before, skip=[/admin/login, /static/.*])
beforeware(path, admin) ==
    IF path = ADMIN_LOGIN THEN FALSE ELSE admin_auth_before(path, admin)

----------------------------------------------------------------------------
(* Storage backend (Drive) and the Storage Gateway functions *)

\* DRIVE_PARENT_FOLDER_ID and another folder of the same Drive
DRIVE_PARENT_FOLDER_ID == "parent"
OtherParent == "elsewhere"

FOLDER_MIME == "application/vnd.google-apps.folder"
ZIP_MIME == "application/zip"

\* an item of the Drive folder tree
Item(id, parent, name, mimeType) ==
    [id |-> id, parent |-> parent, name |-> name, mimeType |-> mimeType]

\* ids the backend assigns to the items it creates, in the order it assigns them
ItemIds == <<"folder_1", "folder_2", "folder_3", "folder_4", "folder_5",
             "folder_6", "folder_7", "folder_8", "folder_9">>

\* folder_name = f"Semester_{semester_num}"
SemesterFolderName ==
    <<"Semester_1", "Semester_2", "Semester_3", "Semester_4",
      "Semester_5", "Semester_6", "Semester_7", "Semester_8">>

\* the folder tree after a start-up that created the eight semester folders
\* in an empty parent folder
Provisioned ==
    [items |-> [i \in 1..SEMESTER_COUNT |->
                   Item(ItemIds[i], DRIVE_PARENT_FOLDER_ID, SemesterFolderName[i],
                        FOLDER_MIME)],
     nextId |-> SEMESTER_COUNT + 1]

\* a parent folder in which Semester_1 and Semester_2 exist already
PartlyProvisioned ==
    [items |-> SubSeq(Provisioned.items, 1, 2), nextId |-> 3]

\* SEMESTER_FOLDER_IDS = initialize_drive(): semester name -> Drive folder
\* id, in the order the loop inserted them, after that start-up
SEMESTER_FOLDER_IDS ==
    [s \in {SemesterFolderName[i] : i \in 1..SEMESTER_COUNT} |->
        Provisioned.items[CHOOSE i \in 1..SEMESTER_COUNT :
                              SemesterFolderName[i] = s].id]

\* a lookup that matches the name under any parent
FolderQuery_AnyParent(items, parent_id, folder_name) ==
    SelectSeq(items, LAMBDA f : /\ f.name = folder_name
                                /\ f.mimeType = FOLDER_MIME)

\* files().list(q="'<parent_id>' in parents and name='<folder_name>' and
\* mimeType='application/vnd.google-apps.folder'"): the matching items in
\* listing order
FolderQuery(items, parent_id, folder_name) ==
    SelectSeq(items, LAMBDA f : /\ f.parent = parent_id
                                /\ f.name = folder_name
                                /\ f.mimeType = FOLDER_MIME)

\* verify_or_create_folder(parent_id, folder_name) on the folder tree t:
\* [ok, id, folders, calls]; failAt 1: the list call raises, 2: the create
\* call raises
verify_or_create_folder(t, parent_id, folder_name, failAt) ==
    LET existing_folders == FolderQuery(t.items, parent_id, folder_name)
        raised(calls) == [ok |-> FALSE, id |-> None, folders |-> t, calls |-> calls]
    IN
    IF failAt = 1 THEN raised(<<"list">>)
    ELSE IF existing_folders # <<>>
        THEN [ok |-> TRUE, id |-> existing_folders[1].id, folders |-> t,
              calls |-> <<"list">>]
    ELSE IF failAt = 2 THEN raised(<<"list", "create">>)
    ELSE [ok |-> TRUE, id |-> ItemIds[t.nextId],
          folders |-> [items |-> Append(t.items,
                                        Item(ItemIds[t.nextId], parent_id,
                                             folder_name, FOLDER_MIME)),
                       nextId |-> t.nextId + 1],
          calls |-> <<"list", "create">>]

DriveFile(parent, name, content, modifiedTime) ==
    [parent |-> parent, name |-> name, content |-> content,
     modifiedTime |-> modifiedTime]

\* a removal that removes nothing
Remove_Nothing(f, k) == f

\* f without its entry k: files().delete(fileId=k), Path.unlink()
Remove(f, k) == [x \in (DOMAIN f) \ {k} |-> f[x]]

\* f with k set to v: files().create(...), Path.write_bytes()
Put(f, k, v) == [x \in (DOMAIN f) \cup {k} |-> IF x = k THEN v ELSE f[x]]

RECURSIVE Ascending(_)
Ascending(S) ==
    IF S = {} THEN <<>>
    ELSE LET m == Max(S) IN Append(Ascending(S \ {m}), m)

\* a[::-1]
Reverse(q) == [i \in 1..Len(q) |-> q[Len(q) + 1 - i]]

\* the folder's children in the backend's native order
NativeOrder(d, folder) == Ascending({id \in DOMAIN d : d[id].parent = folder})

\* results.get("files", []) of one files().list call: the call names no
\* pageSize and the code never asks for or follows nextPageToken, so it
\* sees the first page only
FirstPage(q) == SubSeq(q, 1, IF Len(q) < PageSize THEN Len(q) ELSE PageSize)

\* files().list(q="'<folder>' in parents").execute().get("files", [])
DriveList(d, folder) == FirstPage(NativeOrder(d, folder))

\* list_files_in_semester: ids of the files of the one page, order reversed
list_files_in_semester(d, semester) ==
    IF semester \notin DOMAIN SEMESTER_FOLDER_IDS THEN <<>>
    ELSE Reverse(DriveList(d, SEMESTER_FOLDER_IDS[semester]))

\* a lookup that takes the first file of the folder, whatever its name
FirstNamed_AnyName(d, files, filename) ==
    IF files = <<>> THEN NoFileParam ELSE files[1]

\* next(f for f in existing_files if f["filename"] == filename, None)
FirstNamed(d, files, filename) ==
    LET hits == {i \in 1..Len(files) : d[files[i]].name = filename}
    IN IF hits = {} THEN NoFileParam
       ELSE files[CHOOSE i \in hits : \A j \in hits : i <= j]

\* one iteration of the loop of list_recent_uploads: files().list(q=
\* "'<folder_id>' in parents and modifiedTime > '<cutoff>'"), first page
RecentPage(d, folder_id, cutoff) ==
    FirstPage(Ascending({id \in DOMAIN d : /\ d[id].parent = folder_id
                                            /\ d[id].modifiedTime > cutoff}))

\* the iterations semester_num .. 8 of that loop on an unchanging Drive
RECURSIVE RecentFrom(_, _, _)
RecentFrom(d, cutoff, semester_num) ==
    IF semester_num > SEMESTER_COUNT THEN <<>>
    ELSE RecentPage(d, SEMESTER_FOLDER_IDS[SemesterFolderName[semester_num]], cutoff)
         \o RecentFrom(d, cutoff, semester_num + 1)

\* list_recent_uploads at instant t, no other request changing the Drive
\* between its list calls: ids of the files it returns, in its order
list_recent_uploads(d, t) == RecentFrom(d, t - RETENTION_SECONDS, 1)

\* upload_file_to_drive: [ok, drive, nextId, calls]; ok = FALSE when it
\* raises, calls = the Drive API calls it issued
upload_file_to_drive(d, nid, file_bytes, filename, semester, t, fails) ==
    IF \/ semester \notin DOMAIN SEMESTER_FOLDER_IDS
       \/ file_bytes.kind # "zip"
    THEN [ok |-> FALSE, drive |-> d, nextId |-> nid, calls |-> <<>>]
    ELSE IF fails
    THEN [ok |-> FALSE, drive |-> d, nextId |-> nid, calls |-> <<"create">>]
    ELSE [ok |-> TRUE,
          drive |-> Put(d, nid, DriveFile(SEMESTER_FOLDER_IDS[semester], filename,
                                          file_bytes, t)),
          nextId |-> nid + 1,
          calls |-> <<"create">>]

\* zipfile.ZipFile(path, "r") finds the archive's central directory
OpensAsZip(file_bytes) == file_bytes.kind # "garbage"

\* zipfile.ZipFile(path, "r") opens the bytes and read() returns every entry
ReadableZip(file_bytes) == file_bytes.kind = "zip"

\* the three NamedTemporaryFile(delete=False) of merge_zip_files_in_drive
MergeTempFiles == {"existing_temp", "new_temp", "merged_temp"}

\* <existing_temp stem>_merged.zip, which merge_zip_files opens for writing
\* once both inputs are open and renames over existing_path when it is done
MergedZipFile == "existing_temp_merged"

\* io.BytesIO(merged_content): a stream, not a path
BytesIO(content) == [kind |-> "BytesIO", content |-> content]

\* MediaFileUpload(filename, ...) opens filename as a path; anything that is
\* not a path raises TypeError.  TRUE when the media body is constructed.
MediaFileUpload(filename) == filename.kind = "path"

\* a merge that stores the new bytes without opening either archive
merge_zip_files_in_drive_Unopened(d, existing_file_id, new_file_bytes, t, failAt) ==
    IF \/ existing_file_id \notin DOMAIN d
       \/ failAt = 1
    THEN [ok |-> FALSE, drive |-> d, calls |-> <<"get_media">>, leaked |-> {}]
    ELSE [ok |-> TRUE,
          drive |-> [d EXCEPT ![existing_file_id].content = new_file_bytes,
                              ![existing_file_id].modifiedTime = t],
          calls |-> <<"get_media", "update">>,
          leaked |-> {}]

\* merge_zip_files_in_drive: [ok, drive, calls, leaked]; ok = FALSE when it
\* raises, calls = the Drive API calls it issued, leaked = the temporary
\* files it created and did not unlink.  failAt = 1: the download raises;
\* failAt = 2: the update call raises.
merge_zip_files_in_drive(d, existing_file_id, new_file_bytes, t, failAt) ==
    IF \/ existing_file_id \notin DOMAIN d
       \/ failAt = 1
    THEN [ok |-> FALSE, drive |-> d, calls |-> <<"get_media">>, leaked |-> {}]
    ELSE LET existing_file_content == d[existing_file_id].content
         IN IF \/ ~OpensAsZip(existing_file_content)
               \/ ~OpensAsZip(new_file_bytes)
            THEN [ok |-> FALSE, drive |-> d, calls |-> <<"get_media">>,
                  leaked |-> MergeTempFiles]
            ELSE IF \/ ~ReadableZip(existing_file_content)
                    \/ ~ReadableZip(new_file_bytes)
            THEN [ok |-> FALSE, drive |-> d, calls |-> <<"get_media">>,
                  leaked |-> MergeTempFiles \cup {MergedZipFile}]
            ELSE LET merged_content ==
                         ZipBytes(merge_zip_files(existing_file_content.entries,
                                                  new_file_bytes.entries))
                 IN IF ~MediaFileUpload(BytesIO(merged_content))
                    THEN [ok |-> FALSE, drive |-> d, calls |-> <<"get_media">>,
                          leaked |-> {}]
                    ELSE IF failAt = 2
                    THEN [ok |-> FALSE, drive |-> d,
                          calls |-> <<"get_media", "update">>, leaked |-> {}]
                    ELSE [ok |-> TRUE,
                          drive |-> [d EXCEPT
                                       ![existing_file_id].content = merged_content,
                                       ![existing_file_id].modifiedTime = t],
                          calls |-> <<"get_media", "update">>,
                          leaked |-> {}]

----------------------------------------------------------------------------
(* Responses *)

NoForm == [temp |-> NoFileParam, existing |-> NoFileParam,
           semester |-> None, batch_year |-> None, files |-> {}]

\* a resolution form whose hidden fields carry no Pending Upload token
conflict_resolution_page_NoToken(temp_path, existing_file_id, batch_year, semester) ==
    [temp |-> NoFileParam, existing |-> existing_file_id,
     semester |-> semester, batch_year |-> batch_year, files |-> {}]

\* conflict_resolution_page: the hidden fields of the form it renders
conflict_resolution_page(temp_path, existing_file_id, batch_year, semester) ==
    [temp |-> temp_path, existing |-> existing_file_id,
     semester |-> semester, batch_year |-> batch_year, files |-> {}]

\* toast messages (add_toast), without their formatted arguments
T_MISSING_FIELDS == "Missing required fields"
T_ONLY_ZIP == "Only .zip files are allowed"
T_TOO_LARGE == "File exceeds maximum size of 50MB"
T_INVALID_ZIP == "Invalid ZIP file format"
T_PROCESSING_FAILED == "Upload processing failed"
T_UPLOADED == "Successfully uploaded"
T_UPLOAD_FAILED == "Upload failed"
T_MISSING_SEM_YEAR == "Missing semester or batch year"
T_REPLACED == "Replaced"
T_REPLACE_ERROR == "Error during replacement"
T_MERGED == "Merged new content"
T_MERGE_FAILED == "Merge failed"
T_NOT_CONFIRMED == "Resolution not confirmed or invalid action."
T_DELETED == "File deleted"
T_TOO_OLD == "Cannot delete file older than 24 hours"

\* RedirectResponse("/admin") keeps the default status 307;
\* RedirectResponse(..., status_code=303) is a 303
TO_ADMIN == "307 /admin"
TO_ADMIN_303 == "303 /admin"
TO_UPLOAD == "303 /admin/upload"
TO_LOGIN == "303 /admin/login"

\* an exception that leaves the handler: 500 Internal Server Error
SERVER_ERROR == "500"

\* result of a handler body: the state it leaves, the response it returns
\* the Drive API calls it issued (none, unless Called says otherwise) and
\* the temporary files it left behind (none, unless Leaked says otherwise)
Result(d, nid, f, ntok, status, toast, form) ==
    [drive |-> d, nextId |-> nid, fs |-> f, nextToken |-> ntok,
     status |-> status, toast |-> toast, form |-> form, calls |-> <<>>,
     leaked |-> {}]

Called(r, calls) == [r EXCEPT !.calls = calls]

\* r, with the request-scoped temporary files the handler left on disk
Leaked(r, kinds) == [r EXCEPT !.leaked = kinds]

----------------------------------------------------------------------------
(* Handler bodies, as functions of the state and the request *)

\* an integrity check that accepts any bytes
VerifyZip_Unchecked(file_bytes) == "zip"

\* zipfile.ZipFile(io.BytesIO(file_bytes)) followed by testzip(): "garbage"
\* when opening raises BadZipfile, "corrupt" when testzip names an entry
VerifyZip(file_bytes) == file_bytes.kind

\* body of admin_upload_process (POST /admin/upload)
UploadResult(form, failAt) ==
    LET file == form.file
        semester == form.semester
        batch_year == form.batch_year
        keep(toast) == Result(drive, nextId, fs, nextToken, TO_UPLOAD, toast, NoForm)
        filename == Filename(batch_year)
    IN
    IF ~file.present \/ Falsy(semester) \/ Falsy(batch_year)
        THEN keep(T_MISSING_FIELDS)
    ELSE IF ~EndsWith(Lower(file.filename), DOT_ZIP)
        THEN keep(T_ONLY_ZIP)
    ELSE IF file.size > MAX_UPLOAD_SIZE
        THEN keep(T_TOO_LARGE)
    ELSE IF VerifyZip(file.bytes) = "garbage"
        THEN keep(T_INVALID_ZIP)
    ELSE IF VerifyZip(file.bytes) = "corrupt"
        THEN keep(T_PROCESSING_FAILED)
    ELSE IF semester \in DOMAIN SEMESTER_FOLDER_IDS /\ failAt = 1
        THEN Called(keep(T_PROCESSING_FAILED), <<"list">>)
    ELSE
    LET existing_files == list_files_in_semester(drive, semester)
        existing_file == FirstNamed(drive, existing_files, filename)
        listed == IF semester \in DOMAIN SEMESTER_FOLDER_IDS THEN <<"list">> ELSE <<>>
    IN
    IF existing_file = NoFileParam
    THEN LET up == upload_file_to_drive(drive, nextId, file.bytes, filename,
                                        semester, now, failAt = 2)
         IN IF up.ok
            THEN Called(Result(up.drive, up.nextId, fs, nextToken, TO_ADMIN,
                               T_UPLOADED, NoForm),
                        listed \o up.calls)
            ELSE Called(keep(T_UPLOAD_FAILED), listed \o up.calls)
    ELSE LET temp_path == nextToken
         IN Called(Result(drive, nextId, Put(fs, temp_path, file.bytes),
                          nextToken + 1, "200 conflict", "",
                          conflict_resolution_page(temp_path, existing_file,
                                                   batch_year, semester)),
                   listed)

\* a clean-up that leaves the file where it is
UnlinkIfExists_Keep(f, temp_file) == f

\* if temp_file.exists(): temp_file.unlink()
UnlinkIfExists(f, temp_file) ==
    IF temp_file \in DOMAIN f THEN Remove(f, temp_file) ELSE f

\* the replace branch of admin_upload_resolve (action "remove", confirmed)
ReplaceResult(temp_file, existing_file_id, semester, batch_year, failAt) ==
    LET failed(d, calls) ==
            Called(Result(d, nextId, UnlinkIfExists(fs, temp_file), nextToken,
                          TO_UPLOAD, T_REPLACE_ERROR, NoForm),
                   calls)
    IN
    IF existing_file_id \notin DOMAIN drive \/ failAt = 1
        THEN failed(drive, <<"delete">>)
    ELSE
    LET deleted == Remove(drive, existing_file_id)
    IN
    IF temp_file \notin DOMAIN fs
        THEN failed(deleted, <<"delete">>)
    ELSE
    LET up == upload_file_to_drive(deleted, nextId, fs[temp_file],
                                   Filename(batch_year), semester, now, failAt = 2)
    IN
    IF up.ok
        THEN Called(Result(up.drive, up.nextId, Remove(fs, temp_file), nextToken,
                           TO_ADMIN, T_REPLACED, NoForm),
                    <<"delete">> \o up.calls)
        ELSE failed(deleted, <<"delete">> \o up.calls)

\* the merge branch of admin_upload_resolve
MergeResult(temp_file, existing_file_id, failAt) ==
    LET failed == Result(drive, nextId, UnlinkIfExists(fs, temp_file), nextToken,
                         TO_UPLOAD, T_MERGE_FAILED, NoForm)
    IN
    IF temp_file \notin DOMAIN fs
        THEN failed
    ELSE
    LET m == merge_zip_files_in_drive(drive, existing_file_id, fs[temp_file],
                                      now, failAt)
    IN
    IF m.ok
        THEN Called(Result(m.drive, nextId, Remove(fs, temp_file), nextToken,
                           TO_ADMIN, T_MERGED, NoForm),
                    m.calls)
        ELSE Leaked(Called(failed, m.calls), m.leaked)

\* a resolve handler that asks the confirmation phrases of a merge too
ResolveResult_MergeConfirmed(form, failAt) ==
    IF Falsy(form.semester) \/ Falsy(form.batch_year)
        THEN Result(drive, nextId, fs, nextToken, TO_UPLOAD, T_MISSING_SEM_YEAR, NoForm)
    ELSE IF form.confirm1 # "REMOVE" \/ form.confirm2 # "REMOVE"
        THEN Result(drive, nextId, UnlinkIfExists(fs, form.temp), nextToken,
                    TO_UPLOAD, T_NOT_CONFIRMED, NoForm)
    ELSE IF form.action = "remove"
        THEN ReplaceResult(form.temp, form.existing, form.semester,
                           form.batch_year, failAt)
    ELSE IF form.action = "merge"
        THEN MergeResult(form.temp, form.existing, failAt)
    ELSE Result(drive, nextId, UnlinkIfExists(fs, form.temp), nextToken,
                TO_UPLOAD, T_NOT_CONFIRMED, NoForm)

\* body of admin_upload_resolve (POST /admin/upload/resolve)
ResolveResult(form, failAt) ==
    LET temp_file == form.temp
        existing_file_id == form.existing
        action == form.action
        confirm1 == form.confirm1
        confirm2 == form.confirm2
        semester == form.semester
        batch_year == form.batch_year
    IN
    IF Falsy(semester) \/ Falsy(batch_year)
        THEN Result(drive, nextId, fs, nextToken, TO_UPLOAD, T_MISSING_SEM_YEAR, NoForm)
    ELSE IF action = "remove" /\ confirm1 = "REMOVE" /\ confirm2 = "REMOVE"
        THEN ReplaceResult(temp_file, existing_file_id, semester, batch_year, failAt)
    ELSE IF action = "merge"
        THEN MergeResult(temp_file, existing_file_id, failAt)
    ELSE Result(drive, nextId, UnlinkIfExists(fs, temp_file), nextToken,
                TO_UPLOAD, T_NOT_CONFIRMED, NoForm)

\* a login that accepts the password in any letter case
LoginResult_IgnoreCase(s, password) ==
    IF password \in {ADMIN_PASSWD, "Secret"}
        THEN [sess |-> [sess EXCEPT ![s] = TRUE], status |-> TO_ADMIN]
        ELSE [sess |-> sess, status |-> "200 Incorrect password."]

\* body of admin_login for a POST (POST /admin/login)
LoginResult(s, password) ==
    IF password = ADMIN_PASSWD
        THEN [sess |-> [sess EXCEPT ![s] = TRUE], status |-> TO_ADMIN]
        ELSE [sess |-> sess, status |-> "200 Incorrect password."]

\* body of admin_dashboard (GET /admin) when no other request is handled
\* meanwhile: the files of the page it renders
DashboardResult ==
    {list_recent_uploads(drive, now)[i] :
        i \in 1..Len(list_recent_uploads(drive, now))}

\* a confirmation that accepts the keyword or the password alone
DeleteConfirmed_Either(confirmation, password) ==
    confirmation = "DELETE" \/ password = ADMIN_PASSWD

\* confirmation == "DELETE" and password == ADMIN_PASSWD
DeleteConfirmed(confirmation, password) ==
    confirmation = "DELETE" /\ password = ADMIN_PASSWD

\* a deletion that does not look at the archive's age
WithinRetention_Unchecked(mod_time, utc_now) == TRUE

\* a window that closes at exactly 86400 s
WithinRetention_Strict(mod_time, utc_now) ==
    utc_now - mod_time < RETENTION_SECONDS

\* (utc_now - mod_time).total_seconds() <= 86400
WithinRetention(mod_time, utc_now) ==
    utc_now - mod_time <= RETENTION_SECONDS

\* body of admin_delete for a POST (POST /admin/delete?file=<id>).  A Drive
\* call that raises reaches "except errors.HttpError": main.py binds no name
\* errors, so evaluating the clause raises NameError, which leaves the handler
\* (the "except Exception" clause of the same try does not catch it) and the
\* framework answers 500 with no toast.
DeleteResult(form, failAt) ==
    LET file_id == form.file
        keep(status, toast) == Result(drive, nextId, fs, nextToken, status, toast, NoForm)
    IN
    IF file_id = NoFileParam
        THEN keep("400", "")
    ELSE IF DeleteConfirmed(form.confirmation, form.password)
        THEN IF file_id \notin DOMAIN drive \/ failAt = 1
                 THEN Called(keep(SERVER_ERROR, ""), <<"get">>)
             ELSE IF WithinRetention(drive[file_id].modifiedTime, now)
                 THEN IF failAt = 2
                          THEN Called(keep(SERVER_ERROR, ""),
                                      <<"get", "delete">>)
                          ELSE Called(Result(Remove(drive, file_id), nextId, fs,
                                             nextToken, TO_ADMIN_303, T_DELETED,
                                             NoForm),
                                      <<"get", "delete">>)
             ELSE Called(keep(TO_ADMIN_303, T_TOO_OLD), <<"get">>)
    ELSE keep("200 empty", "")

----------------------------------------------------------------------------
(* Actions: one per request handler *)

Apply(r) ==
    /\ r.nextId <= Max({nextId, MaxFileId + 1})
    /\ r.nextToken <= Max({nextToken, MaxToken + 1})
    /\ drive' = r.drive
    /\ nextId' = r.nextId
    /\ fs' = r.fs
    /\ tmp' = tmp \cup r.leaked
    /\ nextToken' = r.nextToken

\* a request the Beforeware redirects to the login page; the handler does not run
auth_redirect(s, path) ==
    /\ beforeware(path, sess[s])
    /\ UNCHANGED vars

\* POST /admin/login
admin_login(s, password) ==
    /\ ~beforeware(ADMIN_LOGIN, sess[s])
    /\ sess' = LoginResult(s, password).sess
    /\ submitted' = IF password = ADMIN_PASSWD THEN submitted \cup {s} ELSE submitted
    /\ UNCHANGED <<drive, nextId, fs, tmp, nextToken, now, resolved>>
    /\ UNCHANGED mergeVars
    /\ UNCHANGED bootVars

\* no GET /admin is being handled
NoDash == [pc |-> "idle", cutoff |-> 0, next |-> 1, all_files |-> <<>>]

\* GET /admin enters admin_dashboard, a def handler that the framework runs
\* in a worker thread while other requests are handled; list_recent_uploads
\* fixes its cutoff
admin_dashboard(s) ==
    /\ ~beforeware(ADMIN, sess[s])
    /\ dash.pc = "idle"
    /\ dash' = [pc |-> "listing", cutoff |-> now - RETENTION_SECONDS,
                next |-> 1, all_files |-> <<>>]
    /\ UNCHANGED <<boot, conc, folders>>
    /\ UNCHANGED appVars
    /\ UNCHANGED mergeVars

\* the next iteration of the loop of list_recent_uploads: one list call on
\* the Drive as it is now
list_recent_uploads_step ==
    /\ dash.pc = "listing"
    /\ dash.next <= SEMESTER_COUNT
    /\ dash' = [dash EXCEPT
                   !.all_files =
                       @ \o RecentPage(drive,
                                       SEMESTER_FOLDER_IDS[SemesterFolderName[dash.next]],
                                       dash.cutoff),
                   !.next = @ + 1]
    /\ UNCHANGED <<boot, conc, folders>>
    /\ UNCHANGED appVars
    /\ UNCHANGED mergeVars

\* admin_dashboard returns the page that lists all_files
admin_dashboard_return ==
    /\ dash.pc = "listing"
    /\ dash.next = SEMESTER_COUNT + 1
    /\ dash' = NoDash
    /\ UNCHANGED <<boot, conc, folders>>
    /\ UNCHANGED appVars
    /\ UNCHANGED mergeVars

\* POST /admin/upload
admin_upload_process(s, form, failAt) ==
    /\ ~beforeware(ADMIN_UPLOAD, sess[s])
    /\ Apply(UploadResult(form, failAt))
    /\ UNCHANGED <<sess, now, submitted, resolved>>
    /\ UNCHANGED mergeVars
    /\ UNCHANGED bootVars

\* POST /admin/upload/resolve
admin_upload_resolve(s, form, failAt) ==
    /\ ~beforeware(ADMIN_UPLOAD_RESOLVE, sess[s])
    /\ LET r == ResolveResult(form, failAt)
       IN /\ Apply(r)
          /\ resolved' =
                IF /\ form.temp \in DOMAIN fs
                   /\ r.toast \in {T_REPLACED, T_MERGED, T_NOT_CONFIRMED}
                THEN resolved \cup {form.temp}
                ELSE resolved
    /\ UNCHANGED <<sess, now, submitted>>
    /\ UNCHANGED mergeVars
    /\ UNCHANGED bootVars

\* POST /admin/delete?file=<file_id>
admin_delete(s, form, failAt) ==
    /\ ~beforeware(ADMIN_DELETE, sess[s])
    /\ Apply(DeleteResult(form, failAt))
    /\ UNCHANGED <<sess, now, submitted, resolved>>
    /\ UNCHANGED mergeVars
    /\ UNCHANGED bootVars

\* body of download_file (GET /download?file=<id>): the bytes are written to
\* temp_uploads/<uuid4>.zip and sent with FileResponse; nothing unlinks it
DownloadResult(file_id, fails) ==
    IF file_id = NoFileParam \/ file_id \notin DOMAIN drive \/ fails
        THEN [status |-> "400", leaked |-> {}]
        ELSE [status |-> "200", leaked |-> {"download_temp"}]

\* GET /download?file=<file_id>; the path is outside /admin, so not gated
download_file(file_id, fails) ==
    /\ tmp' = tmp \cup DownloadResult(file_id, fails).leaked
    /\ UNCHANGED <<drive, nextId, fs, nextToken, sess, now, submitted, resolved>>
    /\ UNCHANGED mergeVars
    /\ UNCHANGED bootVars

\* the clock moves to a later instant
Advance ==
    /\ \E t \in TimePoints : t > now /\ now' = t
    /\ UNCHANGED <<drive, nextId, fs, tmp, nextToken, sess, submitted, resolved>>
    /\ UNCHANGED mergeVars
    /\ UNCHANGED bootVars

----------------------------------------------------------------------------
(* Spec: the requests of the admin workflow (login, upload, conflict        *)
(* resolution, deletion) of one browser session, handled at one instant.   *)

EmptyFn == [x \in {} |-> 0]
NoMerge == [done |-> FALSE, entries |-> <<>>]

\* no resolve handler is part-way through its steps
NoConc == [start |-> [drive |-> EmptyFn, nextId |-> 1, fs |-> EmptyFn],
           procs |-> EmptyFn]

\* the process is serving with every semester folder provisioned
Booted == [phase |-> "serving", semester_num |-> SEMESTER_COUNT + 1,
           semester_folders |-> 1..SEMESTER_COUNT]

\* the state after start-up, with the given browser sessions
InitWith(sessions) ==
    /\ drive = EmptyFn
    /\ nextId = 1
    /\ fs = EmptyFn
    /\ tmp = {}
    /\ nextToken = 1
    /\ sess = [s \in sessions |-> FALSE]
    /\ now = 0
    /\ submitted = {}
    /\ resolved = {}
    /\ zipA = <<>>
    /\ zipB = <<>>
    /\ zipOut = NoMerge
    /\ boot = Booted
    /\ conc = NoConc
    /\ dash = NoDash
    /\ folders = Provisioned

Init == InitWith(OneSession)

Next ==
    \/ \E s \in DOMAIN sess, path \in GatedPaths : auth_redirect(s, path)
    \/ \E s \in DOMAIN sess, password \in Passwords : admin_login(s, password)
    \/ \E s \in DOMAIN sess, form \in UploadForms, failAt \in FailAt :
            admin_upload_process(s, form, failAt)
    \/ \E s \in DOMAIN sess, form \in ResolveForms, failAt \in FailAt :
            admin_upload_resolve(s, form, failAt)
    \/ \E s \in DOMAIN sess, form \in DeleteForms, failAt \in FailAt :
            admin_delete(s, form, failAt)

Spec == Init /\ [][Next]_vars

----------------------------------------------------------------------------
(* RetentionSpec: uploads and deletions while the clock moves, so that     *)
(* archives of every age around the retention window meet the delete       *)
(* handler.                                                                *)

RetentionUploads ==
    [file : {UploadFile(ZipName, 1, ZipBytes(Z1))}, semester : Semesters,
     batch_year : BatchYears]

RetentionNext ==
    \/ \E s \in DOMAIN sess, path \in GatedPaths : auth_redirect(s, path)
    \/ \E s \in DOMAIN sess, password \in Passwords : admin_login(s, password)
    \/ \E s \in DOMAIN sess, form \in RetentionUploads, failAt \in FailAt :
            admin_upload_process(s, form, failAt)
    \/ \E s \in DOMAIN sess, form \in DeleteForms, failAt \in FailAt :
            admin_delete(s, form, failAt)
    \/ Advance

RetentionInit == InitWith(OneSession)

RetentionSpec == RetentionInit /\ [][RetentionNext]_vars

----------------------------------------------------------------------------
(* AuthSpec: two browser sessions, each of which may or may not log in,    *)
(* sending requests to every admin route.                                  *)

AuthUploads == RetentionUploads

AuthResolves ==
    {form \in ResolveForms :
        /\ form.confirm1 = "REMOVE"
        /\ form.confirm2 = "REMOVE"
        /\ form.action \in {"remove", "merge"}
        /\ form.semester \in Semesters
        /\ form.batch_year \in BatchYears}

AuthDeletes == {form \in DeleteForms : form.confirmation = "DELETE"}

AuthInit == InitWith(Sessions)

AuthNext ==
    \/ \E s \in DOMAIN sess, path \in GatedPaths : auth_redirect(s, path)
    \/ \E s \in DOMAIN sess, password \in Passwords : admin_login(s, password)
    \/ \E s \in DOMAIN sess, form \in AuthUploads : admin_upload_process(s, form, 0)
    \/ \E s \in DOMAIN sess, form \in AuthResolves : admin_upload_resolve(s, form, 0)
    \/ \E s \in DOMAIN sess, form \in AuthDeletes : admin_delete(s, form, 0)

AuthSpec == AuthInit /\ [][AuthNext]_vars

----------------------------------------------------------------------------
(* UploadSpec: every upload request, valid or not, with every backend      *)
(* failure, between confirmed resolutions and deletions that vary what the *)
(* Drive holds.                                                            *)

UploadInit == InitWith(OneSession)

UploadNext ==
    \/ \E s \in DOMAIN sess, path \in GatedPaths : auth_redirect(s, path)
    \/ \E s \in DOMAIN sess, password \in Passwords : admin_login(s, password)
    \/ \E s \in DOMAIN sess, form \in UploadForms, failAt \in FailAt :
            admin_upload_process(s, form, failAt)
    \/ \E s \in DOMAIN sess, form \in AuthResolves : admin_upload_resolve(s, form, 0)
    \/ \E s \in DOMAIN sess, form \in AuthDeletes : admin_delete(s, form, 0)

UploadSpec == UploadInit /\ [][UploadNext]_vars

----------------------------------------------------------------------------
(* NamingSpec: valid uploads for two batch years, so that a semester folder *)
(* can hold an archive of another name than the one being uploaded, with   *)
(* the confirmed replacements that resolve the conflicts they raise.       *)

NamingYears == BatchYears \cup {"2025"}

NamingUploads ==
    [file : {UploadFile(ZipName, 1, b) : b \in Payloads}, semester : Semesters,
     batch_year : NamingYears]

NamingResolves ==
    {[temp |-> t, existing |-> e, action |-> "remove", confirm1 |-> "REMOVE",
      confirm2 |-> "REMOVE", semester |-> sem, batch_year |-> y] :
        t \in LocalPaths, e \in FileIds, sem \in Semesters, y \in NamingYears}

NamingInit == InitWith(OneSession)

NamingNext ==
    \/ \E s \in DOMAIN sess, path \in GatedPaths : auth_redirect(s, path)
    \/ \E s \in DOMAIN sess, password \in Passwords : admin_login(s, password)
    \/ \E s \in DOMAIN sess, form \in NamingUploads, failAt \in FailAt :
            admin_upload_process(s, form, failAt)
    \/ \E s \in DOMAIN sess, form \in NamingResolves : admin_upload_resolve(s, form, 0)
    \/ \E s \in DOMAIN sess, form \in AuthDeletes : admin_delete(s, form, 0)

NamingSpec == NamingInit /\ [][NamingNext]_vars

----------------------------------------------------------------------------
(* CorruptSpec: the Drive is shared storage and temp_uploads a local       *)
(* directory, so a stored archive or a Pending Upload can be overwritten   *)
(* from outside the application with bytes that are no readable zip.       *)

UnreadableBytes == {GarbageBytes, CorruptBytes(Z1)}

\* another Drive client overwrites the content of a stored archive
external_overwrite(id, bytes) ==
    /\ id \in DOMAIN drive
    /\ drive' = [drive EXCEPT ![id].content = bytes]
    /\ UNCHANGED <<nextId, fs, tmp, nextToken, sess, now, submitted, resolved>>
    /\ UNCHANGED mergeVars
    /\ UNCHANGED bootVars

\* another local process overwrites a Pending Upload file
local_overwrite(t, bytes) ==
    /\ t \in DOMAIN fs
    /\ fs' = [fs EXCEPT ![t] = bytes]
    /\ UNCHANGED <<drive, nextId, tmp, nextToken, sess, now, submitted, resolved>>
    /\ UNCHANGED mergeVars
    /\ UNCHANGED bootVars

CorruptInit == InitWith(OneSession)

CorruptNext ==
    \/ \E s \in DOMAIN sess, path \in GatedPaths : auth_redirect(s, path)
    \/ \E s \in DOMAIN sess, password \in Passwords : admin_login(s, password)
    \/ \E s \in DOMAIN sess, form \in AuthUploads : admin_upload_process(s, form, 0)
    \/ \E s \in DOMAIN sess, form \in AuthResolves, failAt \in FailAt :
            admin_upload_resolve(s, form, failAt)
    \/ \E s \in DOMAIN sess, form \in AuthDeletes : admin_delete(s, form, 0)
    \/ \E id \in FileIds, bytes \in UnreadableBytes : external_overwrite(id, bytes)
    \/ \E t \in LocalPaths, bytes \in UnreadableBytes : local_overwrite(t, bytes)

CorruptSpec == CorruptInit /\ [][CorruptNext]_vars

----------------------------------------------------------------------------
(* StartupSpec: the module-level start-up code, from the Drive access test *)
(* through the provisioning of the semester folders to serve() or exit(1). *)

\* test_drive_access and the parent folder checks of initialize_drive
check_access(ok) ==
    /\ boot.phase = "checking"
    /\ boot' = IF ok THEN [boot EXCEPT !.phase = "provisioning"]
                     ELSE [boot EXCEPT !.phase = "exited 1"]
    /\ UNCHANGED <<conc, folders, dash>>
    /\ UNCHANGED appVars
    /\ UNCHANGED mergeVars

\* semester_folders[folder_name] = folder_id when verify_or_create_folder
\* returned; the mapping as it was when it raised and the loop continues
provision_result(semester_folders, semester_num, ok) ==
    IF ok THEN semester_folders \cup {semester_num} ELSE semester_folders

\* one iteration of the loop over range(1, 9): verify_or_create_folder
\* looks the folder up under the parent and creates it when the list is
\* empty; failAt 1: its list call raises, 2: its create call raises
provision_folder(failAt) ==
    /\ boot.phase = "provisioning"
    /\ boot.semester_num <= SEMESTER_COUNT
    /\ LET r == verify_or_create_folder(folders, DRIVE_PARENT_FOLDER_ID,
                                        SemesterFolderName[boot.semester_num],
                                        failAt)
       IN /\ boot' = [boot EXCEPT
                         !.semester_folders =
                             provision_result(boot.semester_folders,
                                              boot.semester_num, r.ok),
                         !.semester_num = boot.semester_num + 1]
          /\ folders' = r.folders
    /\ UNCHANGED <<conc, dash>>
    /\ UNCHANGED appVars
    /\ UNCHANGED mergeVars

\* SEMESTER_FOLDER_IDS = initialize_drive() returned; serve()
serve ==
    /\ boot.phase = "provisioning"
    /\ boot.semester_num = SEMESTER_COUNT + 1
    /\ boot' = [boot EXCEPT !.phase = "serving"]
    /\ UNCHANGED <<conc, folders, dash>>
    /\ UNCHANGED appVars
    /\ UNCHANGED mergeVars

\* body of semester_view up to its first return: the status it answers
SemesterViewStatus(num) ==
    IF num \notin boot.semester_folders THEN "404 Semester not found" ELSE "200"

\* GET /semester/<num>, once the server serves
semester_view(num) ==
    /\ boot.phase = "serving"
    /\ SemesterViewStatus(num) \in {"404 Semester not found", "200"}
    /\ UNCHANGED vars

StartupInit ==
    /\ drive = EmptyFn
    /\ nextId = 1
    /\ fs = EmptyFn
    /\ tmp = {}
    /\ nextToken = 1
    /\ sess = [s \in OneSession |-> FALSE]
    /\ now = 0
    /\ submitted = {}
    /\ resolved = {}
    /\ zipA = <<>>
    /\ zipB = <<>>
    /\ zipOut = NoMerge
    /\ boot = [phase |-> "checking", semester_num |-> 1, semester_folders |-> {}]
    /\ conc = NoConc
    /\ dash = NoDash
    /\ folders \in {[items |-> <<>>, nextId |-> 1], PartlyProvisioned}

StartupNext ==
    \/ \E ok \in BOOLEAN : check_access(ok)
    \/ \E failAt \in FailAt : provision_folder(failAt)
    \/ serve
    \/ \E num \in 1..SEMESTER_COUNT : semester_view(num)

StartupSpec == StartupInit /\ [][StartupNext]_vars

----------------------------------------------------------------------------
(* DownloadSpec: public downloads of stored archives between the admin's   *)
(* uploads, resolutions and deletions.                                     *)

DownloadInit == InitWith(OneSession)

DownloadNext ==
    \/ \E s \in DOMAIN sess, path \in GatedPaths : auth_redirect(s, path)
    \/ \E s \in DOMAIN sess, password \in Passwords : admin_login(s, password)
    \/ \E s \in DOMAIN sess, form \in AuthUploads : admin_upload_process(s, form, 0)
    \/ \E s \in DOMAIN sess, form \in AuthResolves : admin_upload_resolve(s, form, 0)
    \/ \E s \in DOMAIN sess, form \in AuthDeletes : admin_delete(s, form, 0)
    \/ \E file_id \in FileParams, fails \in BOOLEAN : download_file(file_id, fails)

DownloadSpec == DownloadInit /\ [][DownloadNext]_vars

----------------------------------------------------------------------------
(* ConcurrentSpec: two admins' resolve handlers running at once, one       *)
(* statement of admin_upload_resolve at a time, on two different           *)
(* conflicts.  A handler is a sequence of steps on the world (Drive, next  *)
(* id, local files) with its own local variables.                          *)

Procs == {"p1", "p2"}

World(d, nid, f) == [drive |-> d, nextId |-> nid, fs |-> f]

\* a shared temporary path used instead of the one the form names
TempPath_Shared(form) == 1

\* temp_file = Path(form["temp"])
TempPath(form) == form.temp

\* the handler's local variables when it is entered with the form; failAt
\* names the remote call of this request that the backend fails
Start(form, failAt) ==
    [pc |-> "start", form |-> form, failAt |-> failAt, file_bytes |-> GarbageBytes,
     existing_file_content |-> GarbageBytes, merged_content |-> GarbageBytes,
     status |-> "", toast |-> "", calls |-> <<>>, leaked |-> {}]

Idle == [Start(CHOOSE form \in ResolveForms : TRUE, 0) EXCEPT !.pc = "idle"]

\* one step of admin_upload_resolve: [w, l], the world and the locals after it
Step(w, l) ==
    LET form == l.form
        temp_file == TempPath(form)
        existing_file_id == form.existing
        goto(pc) == [w |-> w, l |-> [l EXCEPT !.pc = pc]]
        raise(pc, calls, leaked) ==
            [w |-> w, l |-> [l EXCEPT !.pc = pc, !.calls = l.calls \o calls,
                                      !.leaked = l.leaked \cup leaked]]
        return(f, status, toast) ==
            [w |-> [w EXCEPT !.fs = f],
             l |-> [l EXCEPT !.pc = "done", !.status = status, !.toast = toast]]
    IN
    CASE l.pc = "start" ->
            IF Falsy(form.semester) \/ Falsy(form.batch_year)
                THEN return(w.fs, TO_UPLOAD, T_MISSING_SEM_YEAR)
            ELSE IF /\ form.action = "remove"
                    /\ form.confirm1 = "REMOVE"
                    /\ form.confirm2 = "REMOVE"
                THEN goto("r_delete")
            ELSE IF form.action = "merge"
                THEN goto("m_read")
            ELSE goto("reject")
      [] l.pc = "reject" ->
            return(UnlinkIfExists(w.fs, temp_file), TO_UPLOAD, T_NOT_CONFIRMED)
      [] l.pc = "r_delete" ->
            IF existing_file_id \notin DOMAIN w.drive \/ l.failAt = 1
                THEN raise("r_except", <<"delete">>, {})
                ELSE [w |-> [w EXCEPT !.drive = Remove(w.drive, existing_file_id)],
                      l |-> [l EXCEPT !.pc = "r_read",
                                      !.calls = l.calls \o <<"delete">>]]
      [] l.pc = "r_read" ->
            IF temp_file \notin DOMAIN w.fs
                THEN raise("r_except", <<>>, {})
                ELSE [w |-> w, l |-> [l EXCEPT !.pc = "r_upload",
                                               !.file_bytes = w.fs[temp_file]]]
      [] l.pc = "r_upload" ->
            LET up == upload_file_to_drive(w.drive, w.nextId, l.file_bytes,
                                           Filename(form.batch_year), form.semester,
                                           now, l.failAt = 2)
            IN IF up.ok
               THEN [w |-> [w EXCEPT !.drive = up.drive, !.nextId = up.nextId],
                     l |-> [l EXCEPT !.pc = "r_unlink",
                                     !.calls = l.calls \o up.calls]]
               ELSE raise("r_except", up.calls, {})
      [] l.pc = "r_unlink" ->
            IF temp_file \notin DOMAIN w.fs
                THEN raise("r_except", <<>>, {})
                ELSE return(Remove(w.fs, temp_file), TO_ADMIN, T_REPLACED)
      [] l.pc = "r_except" ->
            return(UnlinkIfExists(w.fs, temp_file), TO_UPLOAD, T_REPLACE_ERROR)
      [] l.pc = "m_read" ->
            IF temp_file \notin DOMAIN w.fs
                THEN raise("m_except", <<>>, {})
                ELSE [w |-> w, l |-> [l EXCEPT !.pc = "m_download",
                                               !.file_bytes = w.fs[temp_file]]]
      [] l.pc = "m_download" ->
            IF existing_file_id \notin DOMAIN w.drive \/ l.failAt = 1
                THEN raise("m_except", <<"get_media">>, {})
                ELSE [w |-> w,
                      l |-> [l EXCEPT !.pc = "m_merge",
                                      !.existing_file_content =
                                          w.drive[existing_file_id].content,
                                      !.calls = l.calls \o <<"get_media">>]]
      [] l.pc = "m_merge" ->
            IF ~OpensAsZip(l.existing_file_content) \/ ~OpensAsZip(l.file_bytes)
                THEN raise("m_except", <<>>, MergeTempFiles)
            ELSE IF ~ReadableZip(l.existing_file_content) \/ ~ReadableZip(l.file_bytes)
                THEN raise("m_except", <<>>, MergeTempFiles \cup {MergedZipFile})
                ELSE [w |-> w,
                      l |-> [l EXCEPT !.pc = "m_update",
                                      !.merged_content =
                                          ZipBytes(merge_zip_files(
                                              l.existing_file_content.entries,
                                              l.file_bytes.entries))]]
      [] l.pc = "m_update" ->
            IF ~MediaFileUpload(BytesIO(l.merged_content))
                THEN raise("m_except", <<>>, {})
            ELSE IF existing_file_id \notin DOMAIN w.drive \/ l.failAt = 2
                THEN raise("m_except", <<"update">>, {})
                ELSE [w |-> [w EXCEPT
                               !.drive[existing_file_id].content = l.merged_content,
                               !.drive[existing_file_id].modifiedTime = now],
                      l |-> [l EXCEPT !.pc = "m_unlink",
                                      !.calls = l.calls \o <<"update">>]]
      [] l.pc = "m_unlink" ->
            IF temp_file \notin DOMAIN w.fs
                THEN raise("m_except", <<>>, {})
                ELSE return(Remove(w.fs, temp_file), TO_ADMIN, T_MERGED)
      [] l.pc = "m_except" ->
            return(UnlinkIfExists(w.fs, temp_file), TO_UPLOAD, T_MERGE_FAILED)
      [] OTHER -> [w |-> w, l |-> l]

\* the handler run from its entry to its return without interruption
RECURSIVE Run(_, _)
Run(w, l) ==
    IF l.pc \in {"done", "idle"} THEN [w |-> w, l |-> l]
    ELSE Run(Step(w, l).w, Step(w, l).l)

\* the conflict each admin resolves: its Pending Upload and existing archive
Own(p) ==
    IF p = "p1" THEN [temp |-> 1, existing |-> 1, semester |-> "Semester_1"]
                ELSE [temp |-> 2, existing |-> 2, semester |-> "Semester_2"]

SessionOf(p) == IF p = "p1" THEN "s1" ELSE "s2"

\* the resolve forms the admin can submit for the own conflict
ConcurrentForms(p) ==
    {form \in AuthResolves :
        /\ form.temp = Own(p).temp
        /\ form.existing = Own(p).existing
        /\ form.semester = Own(p).semester}

\* POST /admin/upload/resolve arrives and the handler is entered
resolve_begin(p, form, failAt) ==
    /\ ~beforeware(ADMIN_UPLOAD_RESOLVE, sess[SessionOf(p)])
    /\ conc.procs[p].pc = "idle"
    /\ conc' = [conc EXCEPT !.procs[p] = Start(form, failAt)]
    /\ UNCHANGED appVars
    /\ UNCHANGED mergeVars
    /\ UNCHANGED <<boot, folders, dash>>

\* the handler of p executes its next statement
resolve_step(p) ==
    /\ conc.procs[p].pc \notin {"idle", "done"}
    /\ LET r == Step(World(drive, nextId, fs), conc.procs[p])
       IN /\ drive' = r.w.drive
          /\ nextId' = r.w.nextId
          /\ fs' = r.w.fs
          /\ tmp' = tmp \cup r.l.leaked
          /\ conc' = [conc EXCEPT !.procs[p] = r.l]
          /\ resolved' =
                IF /\ r.l.pc = "done"
                   /\ r.l.toast \in {T_REPLACED, T_MERGED, T_NOT_CONFIRMED}
                THEN resolved \cup {TempPath(r.l.form)}
                ELSE resolved
    /\ UNCHANGED <<nextToken, sess, now, submitted>>
    /\ UNCHANGED mergeVars
    /\ UNCHANGED <<boot, folders, dash>>

\* two archives, one per semester folder, each with a conflicting Pending
\* Upload, and both admins logged in
ConcurrentInit ==
    /\ \E c1, c2 \in Payloads :
          drive = [id \in {1, 2} |->
                      DriveFile(SEMESTER_FOLDER_IDS[Own(IF id = 1 THEN "p1" ELSE "p2").semester],
                                Filename("2024"), ZipBytes(IF id = 1 THEN c1.entries
                                                                     ELSE c2.entries), 0)]
    /\ nextId = 3
    /\ fs \in [{1, 2} -> Payloads]
    /\ tmp = {}
    /\ nextToken = 3
    /\ sess = [s \in Sessions |-> TRUE]
    /\ now = 0
    /\ submitted = Sessions
    /\ resolved = {}
    /\ zipA = <<>>
    /\ zipB = <<>>
    /\ zipOut = NoMerge
    /\ boot = Booted
    /\ conc = [start |-> World(drive, nextId, fs), procs |-> [p \in Procs |-> Idle]]
    /\ dash = NoDash
    /\ folders = Provisioned

ConcurrentNext ==
    \/ \E p \in Procs : \E form \in ConcurrentForms(p) : resolve_begin(p, form, 0)
    \/ \E p \in Procs : resolve_step(p)

ConcurrentSpec == ConcurrentInit /\ [][ConcurrentNext]_vars

----------------------------------------------------------------------------
(* MergeResolveSpec: uploads and merge resolutions whose confirmation      *)
(* phrases are not both REMOVE, with the backend failing the download or   *)
(* not.                                                                    *)

MergeResolves ==
    {form \in ResolveForms :
        /\ form.action = "merge"
        /\ <<form.confirm1, form.confirm2>> # <<"REMOVE", "REMOVE">>
        /\ form.semester \in Semesters
        /\ form.batch_year \in BatchYears}

\* valid uploads of either payload
MergeUploads ==
    [file : {UploadFile(ZipName, 1, b) : b \in Payloads}, semester : Semesters,
     batch_year : BatchYears]

MergeResolveInit == InitWith(OneSession)

MergeResolveNext ==
    \/ \E s \in DOMAIN sess, path \in GatedPaths : auth_redirect(s, path)
    \/ \E s \in DOMAIN sess, password \in Passwords : admin_login(s, password)
    \/ \E s \in DOMAIN sess, form \in MergeUploads : admin_upload_process(s, form, 0)
    \/ \E s \in DOMAIN sess, form \in MergeResolves, failAt \in FailAt :
            admin_upload_resolve(s, form, failAt)

MergeResolveSpec == MergeResolveInit /\ [][MergeResolveNext]_vars

----------------------------------------------------------------------------
(* ReplaceSpec: confirmed replace resolutions of two conflicts, one         *)
(* statement at a time, where the backend may fail the delete or the       *)
(* create call and a Pending Upload may have been overwritten on disk      *)
(* with an unreadable zip (local_overwrite).                               *)

\* the confirmed replace forms of admin p's conflict
ReplaceForms(p) == {form \in ConcurrentForms(p) : form.action = "remove"}

ReplaceInit ==
    /\ \E c1, c2 \in Payloads :
          drive = [id \in {1, 2} |->
                      DriveFile(SEMESTER_FOLDER_IDS[Own(IF id = 1 THEN "p1" ELSE "p2").semester],
                                Filename("2024"), ZipBytes(IF id = 1 THEN c1.entries
                                                                     ELSE c2.entries), 0)]
    /\ nextId = 3
    /\ fs \in [{1, 2} -> Payloads \cup {CorruptBytes(Z1)}]
    /\ tmp = {}
    /\ nextToken = 3
    /\ sess = [s \in Sessions |-> TRUE]
    /\ now = 0
    /\ submitted = Sessions
    /\ resolved = {}
    /\ zipA = <<>>
    /\ zipB = <<>>
    /\ zipOut = NoMerge
    /\ boot = Booted
    /\ conc = [start |-> World(drive, nextId, fs), procs |-> [p \in Procs |-> Idle]]
    /\ dash = NoDash
    /\ folders = Provisioned

ReplaceNext ==
    \/ \E p \in Procs : \E form \in ReplaceForms(p) : \E failAt \in FailAt :
            resolve_begin(p, form, failAt)
    \/ \E p \in Procs : resolve_step(p)

ReplaceSpec == ReplaceInit /\ [][ReplaceNext]_vars

----------------------------------------------------------------------------
(* RequestSpec: upload and resolve requests of two logged-in admins in any *)
(* order, each handler running from its last await to its return, where a *)
(* resolve request may carry any form fields: the token, the archive id,   *)
(* the semester and the action are what the client sends.                  *)

\* a local file of the server that is no Pending Upload, and its bytes
SourceFile == 0
SourceBytes == [kind |-> "garbage", entries |-> <<Entry("main.py", 1)>>]

\* the resolve forms a client can send
RequestForms ==
    {[temp |-> t, existing |-> form.existing, action |-> form.action,
      confirm1 |-> form.confirm1, confirm2 |-> form.confirm2,
      semester |-> form.semester, batch_year |-> form.batch_year] :
        t \in {SourceFile, 1, 2},
        form \in {f \in AuthResolves : f.temp = 1}}

\* POST /admin/upload/resolve handled from the form to the response
resolve_run(p, form, failAt) ==
    /\ ~beforeware(ADMIN_UPLOAD_RESOLVE, sess[SessionOf(p)])
    /\ conc.procs[p].pc = "idle"
    /\ LET r == Run(World(drive, nextId, fs), Start(form, failAt))
       IN /\ drive' = r.w.drive
          /\ nextId' = r.w.nextId
          /\ fs' = r.w.fs
          /\ tmp' = tmp \cup r.l.leaked
          /\ conc' = [conc EXCEPT !.procs[p] = r.l]
          /\ resolved' =
                IF /\ form.temp \in DOMAIN fs
                   /\ r.l.toast \in {T_REPLACED, T_MERGED, T_NOT_CONFIRMED}
                THEN resolved \cup {form.temp}
                ELSE resolved
    /\ UNCHANGED <<nextToken, sess, now, submitted>>
    /\ UNCHANGED mergeVars
    /\ UNCHANGED <<boot, folders, dash>>

\* each semester folder holds the archive 2024.zip, an upload of 2024.zip to
\* Semester_1 has met the conflict and left Pending Upload 1, and the
\* server has a local file of its own
RequestInit ==
    /\ \E c1, c2 \in Payloads :
          drive = [id \in {1, 2} |->
                      DriveFile(SEMESTER_FOLDER_IDS[Own(IF id = 1 THEN "p1" ELSE "p2").semester],
                                Filename("2024"), ZipBytes(IF id = 1 THEN c1.entries
                                                                     ELSE c2.entries), 0)]
    /\ nextId = 3
    /\ \E b \in Payloads : fs = (SourceFile :> SourceBytes) @@ (1 :> b)
    /\ tmp = {}
    /\ nextToken = 2
    /\ sess = [s \in Sessions |-> TRUE]
    /\ now = 0
    /\ submitted = Sessions
    /\ resolved = {}
    /\ zipA = <<>>
    /\ zipB = <<>>
    /\ zipOut = NoMerge
    /\ boot = Booted
    /\ conc = [start |-> World(drive, nextId, fs), procs |-> [p \in Procs |-> Idle]]
    /\ dash = NoDash
    /\ folders = Provisioned

RequestNext ==
    \/ \E s \in DOMAIN sess, form \in MergeUploads : admin_upload_process(s, form, 0)
    \/ \E p \in Procs, form \in RequestForms : resolve_run(p, form, 0)

RequestSpec == RequestInit /\ [][RequestNext]_vars

----------------------------------------------------------------------------
(* FolderSpec: verify_or_create_folder called again and again, one call    *)
(* after the other, for folder names under two parents.                    *)

FolderParents == {DRIVE_PARENT_FOLDER_ID, OtherParent}
FolderNames == {"Semester_1", "Semester_2", "semester_1"}

\* one call of verify_or_create_folder
provision(parent_id, folder_name, failAt) ==
    /\ folders' = verify_or_create_folder(folders, parent_id, folder_name,
                                          failAt).folders
    /\ UNCHANGED <<boot, conc, dash>>
    /\ UNCHANGED appVars
    /\ UNCHANGED mergeVars

\* an empty parent folder, or one that holds a zip file named like a folder
FolderInit ==
    /\ drive = EmptyFn
    /\ nextId = 1
    /\ fs = EmptyFn
    /\ tmp = {}
    /\ nextToken = 1
    /\ sess = [s \in OneSession |-> FALSE]
    /\ now = 0
    /\ submitted = {}
    /\ resolved = {}
    /\ zipA = <<>>
    /\ zipB = <<>>
    /\ zipOut = NoMerge
    /\ boot = [phase |-> "provisioning", semester_num |-> 1, semester_folders |-> {}]
    /\ conc = NoConc
    /\ dash = NoDash
    /\ \E items \in {<<>>, <<Item(ItemIds[1], DRIVE_PARENT_FOLDER_ID,
                                    "Semester_1", ZIP_MIME)>>} :
          folders = [items |-> items, nextId |-> Len(items) + 1]

FolderNext ==
    \E parent_id \in FolderParents, folder_name \in FolderNames, failAt \in FailAt :
        provision(parent_id, folder_name, failAt)

FolderSpec == FolderInit /\ [][FolderNext]_vars

----------------------------------------------------------------------------
(* ListingSpec: a semester folder that holds one archive more than a page  *)
(* of files().list, with the admin's dashboard, uploads and deletions.     *)

\* batch years of the archives in the folder, oldest upload first
ListingYears == <<"2019", "2020", "2021", "2022", "2023", "2024">>

\* uploads for the batch year of the first and of the last archive
ListingUploads ==
    [file : {UploadFile(ZipName, 1, ZipBytes(Z1))}, semester : {"Semester_1"},
     batch_year : {ListingYears[1], ListingYears[PageSize + 1]}]

\* confirmed deletions of the archives of the folder
ListingDeletes ==
    [file : 1..(PageSize + 1), confirmation : {"DELETE"}, password : {ADMIN_PASSWD}]

ListingInit ==
    /\ drive = [id \in 1..(PageSize + 1) |->
                   DriveFile(SEMESTER_FOLDER_IDS["Semester_1"],
                             Filename(ListingYears[id]), ZipBytes(Z1), 0)]
    /\ nextId = PageSize + 2
    /\ fs = EmptyFn
    /\ tmp = {}
    /\ nextToken = 1
    /\ sess = [s \in OneSession |-> FALSE]
    /\ now = 0
    /\ submitted = {}
    /\ resolved = {}
    /\ zipA = <<>>
    /\ zipB = <<>>
    /\ zipOut = NoMerge
    /\ boot = Booted
    /\ conc = NoConc
    /\ dash = NoDash
    /\ folders = Provisioned

ListingNext ==
    \/ \E s \in DOMAIN sess : admin_login(s, ADMIN_PASSWD)
    \/ \E s \in DOMAIN sess : admin_dashboard(s)
    \/ list_recent_uploads_step
    \/ admin_dashboard_return
    \/ \E s \in DOMAIN sess, form \in ListingUploads : admin_upload_process(s, form, 0)
    \/ \E s \in DOMAIN sess, form \in ListingDeletes : admin_delete(s, form, 0)

ListingSpec == ListingInit /\ [][ListingNext]_vars

----------------------------------------------------------------------------
(* MergeSpec: harness of the Zip Merge Engine, every pair of archives      *)
(* merged once.                                                            *)

MergeInit ==
    /\ drive = EmptyFn
    /\ nextId = 1
    /\ fs = EmptyFn
    /\ tmp = {}
    /\ nextToken = 1
    /\ sess = [s \in OneSession |-> FALSE]
    /\ now = 0
    /\ submitted = {}
    /\ resolved = {}
    /\ zipA \in Zips
    /\ zipB \in Zips
    /\ zipOut = NoMerge
    /\ boot = Booted
    /\ conc = NoConc
    /\ dash = NoDash
    /\ folders = Provisioned

Merge ==
    /\ ~zipOut.done
    /\ zipOut' = [done |-> TRUE, entries |-> merge_zip_files(zipA, zipB)]
    /\ UNCHANGED <<zipA, zipB>>
    /\ UNCHANGED appVars
    /\ UNCHANGED bootVars

MergeNext == Merge

MergeSpec == MergeInit /\ [][MergeNext]_vars

----------------------------------------------------------------------------
(* Claims.  A claim about a handler is stated over the handler's result in *)
(* every reachable state and for every request the handler can receive     *)
(* there; the handler's action applies exactly that result.                *)

\* some session passes the Beforeware, so the handler of the path runs
HandlerRuns(path) == \E s \in DOMAIN sess : ~beforeware(path, sess[s])

ConfirmedDelete(file_id) ==
    [file |-> file_id, confirmation |-> "DELETE", password |-> ADMIN_PASSWD]

Age(file_id) == now - drive[file_id].modifiedTime

\* the action is the replace action with a confirmation phrase wrong, or it
\* is neither the replace action nor merge
NotConfirmedForm(form) ==
    \/ /\ form.action = "remove"
       /\ (form.confirm1 # "REMOVE" \/ form.confirm2 # "REMOVE")
    \/ form.action \notin {"remove", "merge"}

\* C1: whenever a resolve request names an existing Pending Upload, the
\* Pending Upload file no longer exists when the handler returns, on every
\* exit path (the missing semester / batch-year rejection included).
C1_PendingUploadDeletedOnEveryExit ==
    HandlerRuns(ADMIN_UPLOAD_RESOLVE) =>
        \A form \in ResolveForms, failAt \in FailAt :
            form.temp \in DOMAIN fs =>
                form.temp \notin DOMAIN ResolveResult(form, failAt).fs

\* C2: once a Pending Upload token has been terminally resolved (replaced,
\* merged, or rejected for a bad confirmation), a further resolve request
\* with that token, whatever its action and confirmations, leaves the Drive
\* unchanged.
C2_ResolvedTokenDoesNotMutateStorage ==
    HandlerRuns(ADMIN_UPLOAD_RESOLVE) =>
        \A form \in ResolveForms, failAt \in FailAt :
            form.temp \in resolved =>
                ResolveResult(form, failAt).drive = drive

\* C3: a resolve request for an existing Pending Upload whose replace action
\* is not doubly confirmed, or whose action is neither replace nor merge, is
\* rejected: the Drive is unchanged, the Pending Upload is deleted and a
\* rejection message is shown.
C3_UnconfirmedResolveRejected ==
    HandlerRuns(ADMIN_UPLOAD_RESOLVE) =>
        \A form \in ResolveForms, failAt \in FailAt :
            (form.temp \in DOMAIN fs /\ NotConfirmedForm(form)) =>
                LET r == ResolveResult(form, failAt)
                IN /\ r.drive = drive
                   /\ r.nextId = nextId
                   /\ form.temp \notin DOMAIN r.fs
                   /\ r.status = TO_UPLOAD
                   /\ r.toast \in {T_NOT_CONFIRMED, T_MISSING_SEM_YEAR}

\* C4: when the two merged archives share an entry name p with different
\* content, the merged archive has exactly one entry named p and its content
\* is the overlay's (B's) version.
C4_SharedNameOnceWithOverlayContent ==
    zipOut.done =>
        \A p \in NameSet(zipA) \cap NameSet(zipB) :
            ZipRead(zipA, p) # ZipRead(zipB, p) =>
                /\ Count(zipOut.entries, p) = 1
                /\ ZipRead(zipOut.entries, p) = ZipRead(zipB, p)

\* C5: when the two merged archives have disjoint entry-name sets, the merged
\* archive is exactly A's entries in stored order followed by B's entries in
\* stored order, each with its original content.
C5_DisjointMergeKeepsEveryEntry ==
    (zipOut.done /\ NameSet(zipA) \cap NameSet(zipB) = {}) =>
        zipOut.entries = zipA \o zipB

\* C6: merging an archive with itself gives an archive with the same entry
\* names, each occurring once, and the same bytes per entry.
C6_SelfMergeContentEquivalent ==
    (zipOut.done /\ zipA = zipB) =>
        /\ NameSet(zipOut.entries) = NameSet(zipA)
        /\ \A p \in NameSet(zipA) :
              /\ Count(zipOut.entries, p) = 1
              /\ ZipRead(zipOut.entries, p) = ZipRead(zipA, p)

\* C7: a POST /admin/delete removes an archive only if, at the instant the
\* POST is handled, the archive's age is within the retention window; a
\* confirmed POST for an older archive issues no delete and, once the
\* archive's modifiedTime has been fetched, produces the rejection message.
C7_DeleteOnlyWithinRetentionWindow ==
    HandlerRuns(ADMIN_DELETE) =>
        \A form \in DeleteForms, failAt \in FailAt :
            form.file \in DOMAIN drive =>
                LET r == DeleteResult(form, failAt)
                IN /\ r.drive # drive => Age(form.file) <= RETENTION_SECONDS
                   /\ (/\ form = ConfirmedDelete(form.file)
                       /\ Age(form.file) > RETENTION_SECONDS) =>
                          /\ r.drive = drive
                          /\ (failAt # 1 => r.toast = T_TOO_OLD)

\* witness of C7: an admin session meets an archive older than the window,
\* and its confirmed deletion is answered with the rejection message
C7_Witness ==
    /\ HandlerRuns(ADMIN_DELETE)
    /\ \E f \in DOMAIN drive :
          /\ Age(f) > RETENTION_SECONDS
          /\ DeleteResult(ConfirmedDelete(f), 0).toast = T_TOO_OLD
          /\ DeleteResult(ConfirmedDelete(f), 0).drive = drive

\* C8 as stated: a confirmed deletion at age exactly 86400 s is rejected and
\* one at age 86399 s is allowed.
C8_ExactWindowRejected ==
    HandlerRuns(ADMIN_DELETE) =>
        \A f \in DOMAIN drive :
            LET r == DeleteResult(ConfirmedDelete(f), 0)
            IN /\ Age(f) = RETENTION_SECONDS => r.drive = drive
               /\ Age(f) = RETENTION_SECONDS - 1 => f \notin DOMAIN r.drive

\* C8 amended: a confirmed deletion is allowed at age 86399 s and at age
\* exactly 86400 s, and is rejected from age 86401 s on.
C8_ExactWindowAllowed ==
    HandlerRuns(ADMIN_DELETE) =>
        \A f \in DOMAIN drive :
            LET r == DeleteResult(ConfirmedDelete(f), 0)
            IN /\ Age(f) = RETENTION_SECONDS - 1 => f \notin DOMAIN r.drive
               /\ Age(f) = RETENTION_SECONDS => f \notin DOMAIN r.drive
               /\ Age(f) = RETENTION_SECONDS + 1 =>
                      (r.drive = drive /\ r.toast = T_TOO_OLD)

\* witness of C8: an admin session meets an archive aged exactly 86400 s and
\* its confirmed deletion removes the archive
C8_Witness ==
    /\ HandlerRuns(ADMIN_DELETE)
    /\ \E f \in DOMAIN drive :
          /\ Age(f) = RETENTION_SECONDS
          /\ DeleteResult(ConfirmedDelete(f), 0).toast = T_DELETED
          /\ f \notin DOMAIN DeleteResult(ConfirmedDelete(f), 0).drive

\* C9: POST /admin/delete changes the Drive only when the confirmation is the
\* keyword DELETE and the password is the admin password; otherwise neither
\* the Drive nor the local files change.
C9_DeleteNeedsKeywordAndPassword ==
    HandlerRuns(ADMIN_DELETE) =>
        \A form \in DeleteForms, failAt \in FailAt :
            LET r == DeleteResult(form, failAt)
            IN (form.confirmation # "DELETE" \/ form.password # ADMIN_PASSWD) =>
                   /\ r.drive = drive
                   /\ r.nextId = nextId
                   /\ r.fs = fs

\* witness of C9: an admin session meets a deletable archive; the request
\* with a wrong password and the one with a wrong keyword leave it in place,
\* the fully confirmed one deletes it
C9_Witness ==
    /\ HandlerRuns(ADMIN_DELETE)
    /\ \E f \in DOMAIN drive :
          /\ DeleteResult([ConfirmedDelete(f) EXCEPT !.password = "Secret"], 0).drive
                = drive
          /\ DeleteResult([ConfirmedDelete(f) EXCEPT !.confirmation = "delete"], 0).drive
                = drive
          /\ f \notin DOMAIN DeleteResult(ConfirmedDelete(f), 0).drive

UploadBy(s) ==
    \E form \in UploadForms, failAt \in FailAt : admin_upload_process(s, form, failAt)
ResolveBy(s) ==
    \E form \in ResolveForms, failAt \in FailAt : admin_upload_resolve(s, form, failAt)
DeleteBy(s) ==
    \E form \in DeleteForms, failAt \in FailAt : admin_delete(s, form, failAt)

\* C10: for a session that never submitted the correct password, every
\* request to an admin path other than the login path is redirected to the
\* login page, and the upload, resolve and delete handlers cannot run.
C10_AdminGate ==
    \A s \in (DOMAIN sess) \ submitted :
        /\ \A path \in GatedPaths : beforeware(path, sess[s])
        /\ ~ENABLED UploadBy(s)
        /\ ~ENABLED ResolveBy(s)
        /\ ~ENABLED DeleteBy(s)

\* witness of C10: a session that never logged in, while another session has
\* stored an archive and holds a Pending Upload
C10_Witness ==
    /\ \E s \in (DOMAIN sess) \ submitted : beforeware(ADMIN_DELETE, sess[s])
    /\ submitted # {}
    /\ DOMAIN drive # {}
    /\ DOMAIN fs # {}

\* C11: a login POST whose password is not exactly the admin secret leaves
\* every session flag as it was, so that a session whose flag was unset is
\* still redirected from GET /admin to the login page; a flag is set only in
\* sessions that posted the exactly matching password.
C11_LoginOnlyOnExactPassword ==
    /\ \A s \in DOMAIN sess, password \in Passwords :
          password # ADMIN_PASSWD =>
              LET r == LoginResult(s, password)
              IN /\ r.sess = sess
                 /\ r.status # TO_ADMIN
                 /\ (sess[s] # TRUE => beforeware(ADMIN, r.sess[s]))
    /\ \A s \in DOMAIN sess : sess[s] = TRUE => s \in submitted

\* witness of C11: one session has logged in with the secret, another has
\* not, and a login of the latter with a password differing only in letter
\* case leaves its flag unset
C11_Witness ==
    \E s, t \in DOMAIN sess :
        /\ sess[t] = TRUE
        /\ t \in submitted
        /\ s \notin submitted
        /\ LoginResult(s, "Secret").sess[s] = FALSE
        /\ beforeware(ADMIN, LoginResult(s, "Secret").sess[s])

\* the upload request breaks a validation rule: a field or the file is
\* missing, the file name does not end in .zip (in any letter case), the size
\* is above 50 MiB, or the content is not a zip with every entry readable
ViolatesValidation(form) ==
    \/ ~form.file.present
    \/ Falsy(form.semester)
    \/ Falsy(form.batch_year)
    \/ ~EndsWith(Lower(form.file.filename), DOT_ZIP)
    \/ form.file.size > MAX_UPLOAD_SIZE
    \/ form.file.bytes.kind # "zip"

ValidationToasts ==
    {T_MISSING_FIELDS, T_ONLY_ZIP, T_TOO_LARGE, T_INVALID_ZIP, T_PROCESSING_FAILED}

\* C12: an upload request that breaks a validation rule is answered with a
\* redirect to the upload page and a message, issues no Drive API call (no
\* lookup, no upload), leaves the Drive unchanged and creates no Pending
\* Upload.
C12_InvalidUploadMakesNoStorageCall ==
    HandlerRuns(ADMIN_UPLOAD) =>
        \A form \in UploadForms, failAt \in FailAt :
            ViolatesValidation(form) =>
                LET r == UploadResult(form, failAt)
                IN /\ r.calls = <<>>
                   /\ r.drive = drive
                   /\ r.nextId = nextId
                   /\ r.fs = fs
                   /\ r.nextToken = nextToken
                   /\ r.status = TO_UPLOAD
                   /\ r.toast \in ValidationToasts

\* witness of C12: an admin session, with an archive stored that a valid
\* upload would conflict with, sends an upload whose content is not a zip;
\* it is rejected as an invalid zip, while the same upload with zip content
\* creates a Pending Upload
C12_Witness ==
    /\ HandlerRuns(ADMIN_UPLOAD)
    /\ \E sem \in Semesters :
          LET valid == [file |-> UploadFile(ZipName, 1, ZipBytes(Z1)),
                        semester |-> sem, batch_year |-> "2024"]
              bad == [valid EXCEPT !.file = UploadFile(ZipName, 1, GarbageBytes)]
          IN /\ UploadResult(bad, 0).toast = T_INVALID_ZIP
             /\ UploadResult(bad, 0).calls = <<>>
             /\ UploadResult(valid, 0).fs # fs

\* the semester folder holds no archive named <batch_year>.zip
NoArchiveNamed(semester, batch_year) ==
    ~\E id \in DOMAIN drive :
        /\ drive[id].parent = SEMESTER_FOLDER_IDS[semester]
        /\ drive[id].name = Filename(batch_year)

ConflictForm(form) ==
    /\ form.temp \in DOMAIN fs
    /\ form.existing \in DOMAIN drive
    /\ drive[form.existing].parent = SEMESTER_FOLDER_IDS[form.semester]
    /\ drive[form.existing].name = Filename(form.batch_year)

\* C15: in a conflict on the canonical name, a resolve request with the
\* replace action (form value "remove") and both confirmations equal to
\* REMOVE, the backend calls succeeding, deletes the existing archive and
\* stores the pending bytes as a new archive of the same canonical name in
\* the same semester folder; every other archive is unchanged and the
\* Pending Upload is removed.
C15_ConfirmedReplaceSwapsArchive ==
    HandlerRuns(ADMIN_UPLOAD_RESOLVE) =>
        \A form \in NamingResolves :
            ConflictForm(form) =>
                LET r == ResolveResult(form, 0)
                IN /\ r.calls = <<"delete", "create">>
                   /\ r.toast = T_REPLACED
                   /\ form.existing \notin DOMAIN r.drive
                   /\ DOMAIN r.drive = ((DOMAIN drive) \ {form.existing}) \cup {nextId}
                   /\ r.drive[nextId] =
                         DriveFile(SEMESTER_FOLDER_IDS[form.semester],
                                   Filename(form.batch_year), fs[form.temp], now)
                   /\ \A id \in (DOMAIN drive) \ {form.existing} :
                         r.drive[id] = drive[id]
                   /\ form.temp \notin DOMAIN r.fs

\* witness of C15: a conflict whose pending bytes differ from the stored
\* archive's content, with a Drive id left for the replacement
C15_Witness ==
    /\ HandlerRuns(ADMIN_UPLOAD_RESOLVE)
    /\ nextId <= MaxFileId
    /\ \E form \in NamingResolves :
          /\ ConflictForm(form)
          /\ drive[form.existing].content # fs[form.temp]
          /\ ResolveResult(form, 0).drive[nextId].content = fs[form.temp]

\* C16: in a conflict where the existing archive holds a.txt and the Pending
\* Upload holds a.txt with other content and b.txt, a merge resolution whose
\* backend calls succeed reports the merge and leaves the existing archive
\* with exactly the entries a.txt, in the new version, and b.txt.
C16_MergeKeepsNewVersionOnly ==
    HandlerRuns(ADMIN_UPLOAD_RESOLVE) =>
        \A form \in AuthResolves :
            (/\ form.action = "merge"
             /\ ConflictForm(form)
             /\ drive[form.existing].content = ZipBytes(Z1)
             /\ fs[form.temp] = ZipBytes(Z2)) =>
                LET r == ResolveResult(form, 0)
                    merged == r.drive[form.existing].content
                IN /\ r.toast = T_MERGED
                   /\ merged.kind = "zip"
                   /\ NameSet(merged.entries) = {"a.txt", "b.txt"}
                   /\ Count(merged.entries, "a.txt") = 1
                   /\ Count(merged.entries, "b.txt") = 1
                   /\ ZipRead(merged.entries, "a.txt") = 2
                   /\ ZipRead(merged.entries, "b.txt") = 1

\* C17: when the existing archive or the Pending Upload is no readable zip, a
\* merge resolution changes nothing in the Drive (the existing archive keeps
\* its id and content, no archive is created), issues no Drive call after
\* the download, and reports the failure.
C17_UnreadableZipFailsMergeUnchanged ==
    HandlerRuns(ADMIN_UPLOAD_RESOLVE) =>
        \A form \in AuthResolves, failAt \in FailAt :
            (/\ form.action = "merge"
             /\ form.temp \in DOMAIN fs
             /\ form.existing \in DOMAIN drive
             /\ \/ drive[form.existing].content.kind # "zip"
                \/ fs[form.temp].kind # "zip") =>
                LET r == ResolveResult(form, failAt)
                IN /\ r.drive = drive
                   /\ r.nextId = nextId
                   /\ r.calls = <<"get_media">>
                   /\ r.status = TO_UPLOAD
                   /\ r.toast = T_MERGE_FAILED

\* witness of C17: a conflict whose existing archive has been overwritten
\* with bytes that are no zip while its Pending Upload is a readable zip, and
\* another whose Pending Upload holds an unreadable entry
C17_Witness ==
    /\ HandlerRuns(ADMIN_UPLOAD_RESOLVE)
    /\ \E form \in AuthResolves :
          /\ form.action = "merge"
          /\ ConflictForm(form)
          /\ drive[form.existing].content = GarbageBytes
          /\ fs[form.temp].kind = "zip"
          /\ ResolveResult(form, 0).toast = T_MERGE_FAILED
    /\ \E t \in DOMAIN fs : fs[t].kind = "corrupt"

\* C18: whenever the server is serving, the folder mapping has an entry for
\* each of Semester_1 .. Semester_8 (a failed find-or-create of any folder
\* ends the process instead).
C18_ServingImpliesAllFoldersMapped ==
    boot.phase = "serving" => boot.semester_folders = 1..SEMESTER_COUNT

\* C19: between requests no request-scoped temporary file is left on disk:
\* the only local files are Pending Uploads whose conflict has not been
\* resolved.
C19_NoTemporaryFileOutlivesItsRequest ==
    /\ tmp = {}
    /\ \A t \in DOMAIN fs : t \notin resolved


\* the locals of admin p's resolve handler
Proc(p) == conc.procs[p]

\* the handler has not yet reached the unlink of its Pending Upload (the
\* except branch of a merge unlinks it as its last statement)
BeforeUnlink(l) ==
    l.pc \in {"idle", "start", "r_delete", "r_read", "r_upload", "r_unlink",
              "m_read", "m_download", "m_merge", "m_update", "m_unlink",
              "m_except"}

\* the handler has read its Pending Upload
HasRead(l) ==
    l.pc \in {"r_upload", "r_unlink", "m_download", "m_merge", "m_update",
              "m_unlink", "done"}

\* the handler has not yet deleted or updated its existing archive (a
\* merge that ends in its except branch never has)
BeforeMutation(l) ==
    \/ l.pc \in {"idle", "start", "r_delete", "m_read", "m_download", "m_merge",
                 "m_update", "m_except"}
    \/ l.pc = "done" /\ l.toast = T_MERGE_FAILED

\* the world after admin p's resolution has run alone and then admin q's
Serial(p, q) ==
    Run(Run(conc.start, Start(Proc(p).form, Proc(p).failAt)).w,
        Start(Proc(q).form, Proc(q).failAt)).w

\* C20: when two admins resolve two different conflicts at the same time,
\* under every interleaving of the two handlers' steps the Pending Upload
\* of each admin stays on disk unchanged until its own handler unlinks it,
\* the bytes a handler reads are those of its own Pending Upload, the
\* existing archive of each admin stays as it was until its own handler
\* deletes or updates it, each handler ends as it does when it runs alone
\* (a replace with "Replaced", a merge with "Merge failed" after its
\* download and no other Drive call), and once both have returned the Drive
\* and the local files are those left by running the two resolutions one
\* after the other.
C20_ConcurrentResolvesAreIndependent ==
    /\ \A p \in Procs :
          LET l == Proc(p)
              own == Own(p)
          IN /\ BeforeUnlink(l) =>
                    /\ own.temp \in DOMAIN fs
                    /\ fs[own.temp] = conc.start.fs[own.temp]
             /\ HasRead(l) => l.file_bytes = conc.start.fs[own.temp]
             /\ ~BeforeUnlink(l) => own.temp \notin DOMAIN fs
             /\ BeforeMutation(l) =>
                    /\ own.existing \in DOMAIN drive
                    /\ drive[own.existing] = conc.start.drive[own.existing]
             /\ l.pc \notin {"r_except", "reject"}
             /\ l.pc = "done" =>
                    /\ l.toast = Run(conc.start, Start(l.form, l.failAt)).l.toast
                    /\ l.calls = Run(conc.start, Start(l.form, l.failAt)).l.calls
                    /\ l.toast = IF l.form.action = "merge" THEN T_MERGE_FAILED
                                                            ELSE T_REPLACED
                    /\ l.form.action = "merge" => l.calls = <<"get_media">>
    /\ (\A p \in Procs : Proc(p).pc = "done") =>
          World(drive, nextId, fs) \in {Serial("p1", "p2"), Serial("p2", "p1")}

\* both handlers are half way: the first admin's replace has deleted its
\* archive and read its Pending Upload, the second admin's merge has
\* downloaded its archive and merged it with its own Pending Upload,
\* neither has returned, and the two Pending Uploads differ
C20_Witness ==
    /\ Proc("p1").pc = "r_upload"
    /\ Proc("p2").pc = "m_update"
    /\ 1 \notin DOMAIN drive
    /\ Proc("p2").calls = <<"get_media">>
    /\ Proc("p2").file_bytes = conc.start.fs[2]
    /\ Proc("p2").merged_content.kind = "zip"
    /\ DOMAIN fs = {1, 2}
    /\ conc.start.fs[1] # conc.start.fs[2]


\* the folders named folder_name under parent_id in the folder tree t
FoldersNamed(t, parent_id, folder_name) ==
    {i \in 1..Len(t.items) : /\ t.items[i].parent = parent_id
                              /\ t.items[i].name = folder_name
                              /\ t.items[i].mimeType = FOLDER_MIME}

\* C21: verify_or_create_folder is idempotent under sequential calls: when
\* a folder of exactly that name exists under the parent, a call returns
\* its id and leaves the folder tree as it is; otherwise it appends exactly
\* one folder of that name under that parent and returns its id; a second
\* call right after returns the same id and changes nothing, and exactly
\* one folder of that name is under the parent.
C21_FindOrCreateFolderIsIdempotent ==
    \A parent_id \in FolderParents, folder_name \in FolderNames :
        LET first == verify_or_create_folder(folders, parent_id, folder_name, 0)
            second == verify_or_create_folder(first.folders, parent_id,
                                              folder_name, 0)
            before == FoldersNamed(folders, parent_id, folder_name)
            after == FoldersNamed(first.folders, parent_id, folder_name)
        IN /\ first.ok
           /\ Cardinality(before) <= 1
           /\ before # {} =>
                 /\ first.folders = folders
                 /\ \A i \in before : first.id = folders.items[i].id
                 /\ first.calls = <<"list">>
           /\ before = {} =>
                 /\ Len(first.folders.items) = Len(folders.items) + 1
                 /\ SubSeq(first.folders.items, 1, Len(folders.items)) = folders.items
                 /\ first.folders.items[Len(first.folders.items)] =
                        Item(first.id, parent_id, folder_name, FOLDER_MIME)
                 /\ \A i \in 1..Len(folders.items) : folders.items[i].id # first.id
           /\ second.ok
           /\ second.id = first.id
           /\ second.folders = first.folders
           /\ Cardinality(after) = 1

\* witness of C21: the folder Semester_1 exists under the parent folder next
\* to a zip file of the same name, to a folder of the same name under
\* another parent and to a folder whose name differs in letter case only,
\* while Semester_2 is still to be created
C21_Witness ==
    /\ FoldersNamed(folders, DRIVE_PARENT_FOLDER_ID, "Semester_1") # {}
    /\ FoldersNamed(folders, OtherParent, "Semester_1") # {}
    /\ FoldersNamed(folders, DRIVE_PARENT_FOLDER_ID, "semester_1") # {}
    /\ FoldersNamed(folders, DRIVE_PARENT_FOLDER_ID, "Semester_2") = {}
    /\ \E i \in 1..Len(folders.items) :
          /\ folders.items[i].name = "Semester_1"
          /\ folders.items[i].mimeType = ZIP_MIME


\* the archives created since the start in the semester folder of admin p
NewArchives(p) ==
    {id \in DOMAIN drive \ DOMAIN conc.start.drive :
        drive[id].parent = SEMESTER_FOLDER_IDS[Own(p).semester]}

\* the existing archive of admin p's conflict is as it was at the start
ArchiveUntouched(p) ==
    /\ Own(p).existing \in DOMAIN drive
    /\ drive[Own(p).existing] = conc.start.drive[Own(p).existing]

\* C22: a confirmed replace runs delete existing archive, upload pending
\* bytes, delete Pending Upload, in that order: before the delete call
\* nothing has changed; between the delete and the upload the archive is
\* gone, nothing is uploaded and the Pending Upload is on disk; after the
\* upload the new archive holds the pending bytes and the Pending Upload is
\* still on disk.  When the delete fails no create call is made and the
\* archive is unchanged; when the upload fails after the delete the
\* archive stays deleted and nothing replaces it; however the handler
\* returns, the Pending Upload is gone.
C22_ReplaceOrderAndFailureHandling ==
    \A p \in Procs :
        LET l == Proc(p)
            own == Own(p)
            onDisk == /\ own.temp \in DOMAIN fs
                      /\ fs[own.temp] = conc.start.fs[own.temp]
            gone == own.existing \notin DOMAIN drive
            uploaded == /\ Cardinality(NewArchives(p)) = 1
                        /\ \A id \in NewArchives(p) :
                              /\ drive[id].content = conc.start.fs[own.temp]
                              /\ drive[id].name = Filename(l.form.batch_year)
        IN /\ l.pc \in {"idle", "start", "r_delete"} =>
                 ArchiveUntouched(p) /\ onDisk /\ NewArchives(p) = {} /\ l.calls = <<>>
           /\ l.pc \in {"r_read", "r_upload"} =>
                 gone /\ onDisk /\ NewArchives(p) = {} /\ l.calls = <<"delete">>
           /\ l.pc = "r_unlink" =>
                 gone /\ onDisk /\ uploaded /\ l.calls = <<"delete", "create">>
           /\ l.pc = "r_except" =>
                 /\ onDisk
                 /\ NewArchives(p) = {}
                 /\ l.failAt = 1 => ArchiveUntouched(p) /\ l.calls = <<"delete">>
                 /\ l.failAt # 1 => gone
           /\ l.pc = "done" =>
                 /\ own.temp \notin DOMAIN fs
                 /\ l.toast \in {T_REPLACED, T_REPLACE_ERROR}
                 /\ l.toast = T_REPLACED =>
                       gone /\ uploaded /\ l.calls = <<"delete", "create">>
                 /\ (l.toast = T_REPLACE_ERROR /\ l.failAt = 1) =>
                       ArchiveUntouched(p) /\ NewArchives(p) = {}
                                           /\ l.calls = <<"delete">>
                 /\ (l.toast = T_REPLACE_ERROR /\ l.failAt # 1) =>
                       gone /\ NewArchives(p) = {}
                 /\ l.failAt = 1 => l.toast = T_REPLACE_ERROR
                 /\ l.failAt = 2 => l.toast = T_REPLACE_ERROR
           /\ l.pc \notin {"reject", "m_read", "m_download", "m_merge", "m_update",
                            "m_unlink", "m_except"}

\* witness of C22: both replaces have returned with an error; the first
\* admin's delete succeeded and its create call failed, so the archive is
\* gone and nothing replaced it; the second admin's delete failed, so the
\* archive is still there; both Pending Uploads have been removed
C22_Witness ==
    /\ Proc("p1").pc = "done"
    /\ Proc("p1").failAt = 2
    /\ Proc("p1").calls = <<"delete", "create">>
    /\ Proc("p1").toast = T_REPLACE_ERROR
    /\ 1 \notin DOMAIN drive
    /\ NewArchives("p1") = {}
    /\ Proc("p2").pc = "done"
    /\ Proc("p2").failAt = 1
    /\ Proc("p2").toast = T_REPLACE_ERROR
    /\ ArchiveUntouched("p2")
    /\ DOMAIN fs = {}


\* the confirmation phrases a resolve request may carry
Phrases == {"", "REMOVE", "remove"}

\* C23: a resolve request with action merge (semester and batch year
\* given) is handled the same whatever its two confirmation phrases are,
\* the empty ones included, and it is never rejected as not confirmed; it
\* makes no create and no delete call, every archive keeps its id, folder
\* and name, and no archive other than the one named in the request
\* changes at all.
C23_MergeNeedsNoPhraseAndKeepsArchiveSet ==
    HandlerRuns(ADMIN_UPLOAD_RESOLVE) =>
        \A form \in ResolveForms, failAt \in FailAt, c1 \in Phrases, c2 \in Phrases :
            (/\ form.action = "merge"
             /\ ~Falsy(form.semester)
             /\ ~Falsy(form.batch_year)) =>
                LET r == ResolveResult([form EXCEPT !.confirm1 = c1, !.confirm2 = c2],
                                       failAt)
                IN /\ r = ResolveResult(form, failAt)
                   /\ r.toast \in {T_MERGED, T_MERGE_FAILED}
                   /\ r.nextId = nextId
                   /\ \A i \in 1..Len(r.calls) : r.calls[i] \in {"get_media", "update"}
                   /\ DOMAIN r.drive = DOMAIN drive
                   /\ \A id \in DOMAIN drive :
                         /\ r.drive[id].name = drive[id].name
                         /\ r.drive[id].parent = drive[id].parent
                         /\ id # form.existing => r.drive[id] = drive[id]

\* witness of C23: a merge has been handled (its Pending Upload is
\* consumed), and another conflict is pending whose merge with empty
\* phrases downloads the existing archive, ends in the merge branch's
\* except clause and consumes the Pending Upload
C23_Witness ==
    /\ HandlerRuns(ADMIN_UPLOAD_RESOLVE)
    /\ \E t \in 1..(nextToken - 1) : t \notin DOMAIN fs
    /\ \E form \in MergeResolves :
          /\ ConflictForm(form)
          /\ LET r == ResolveResult([form EXCEPT !.confirm1 = "", !.confirm2 = ""], 0)
             IN /\ r.toast = T_MERGE_FAILED
                /\ r.calls = <<"get_media">>
                /\ r.drive = drive
                /\ form.temp \notin DOMAIN r.fs


\* C24: the dashboard lists exactly the archives of the semester folders
\* whose modifiedTime is at or after the cutoff now - 24 h, so an archive is
\* listed exactly when a confirmed deletion of it at the same instant is
\* accepted by the retention-window check.
C24_ListedExactlyWhenDeletable ==
    HandlerRuns(ADMIN) =>
        \A f \in DOMAIN drive :
            /\ f \in DashboardResult <=>
                    drive[f].modifiedTime >= now - RETENTION_SECONDS
            /\ f \in DashboardResult <=>
                    DeleteResult(ConfirmedDelete(f), 0).toast = T_DELETED


\* the semester names a request may carry, mapped to a folder or not
ListedSemesters == ReqSemesters \cup {"Semester_9"}

\* C25: list_files_in_semester returns every file whose parent is the
\* semester's folder exactly once and nothing else, the file at position i
\* being the one the backend holds at position n + 1 - i of the folder's n
\* children; for a semester without an entry in the folder mapping it
\* returns the empty sequence.
C25_ListFilesReversedAndComplete ==
    \A semester \in ListedSemesters :
        LET listed == list_files_in_semester(drive, semester)
        IN IF semester \notin DOMAIN SEMESTER_FOLDER_IDS
           THEN listed = <<>>
           ELSE LET folder == SEMESTER_FOLDER_IDS[semester]
                    native == NativeOrder(drive, folder)
                    n == Len(native)
                IN /\ Len(listed) = n
                   /\ \A i \in 1..n : listed[i] = native[n + 1 - i]
                   /\ \A id \in DOMAIN drive :
                         Cardinality({i \in 1..Len(listed) : listed[i] = id}) =
                             IF drive[id].parent = folder THEN 1 ELSE 0
                   /\ \A i \in 1..Len(listed) : listed[i] \in DOMAIN drive


\* C26: however upload and resolve requests follow one another, no semester
\* folder ever holds two archives with the same name <batch_year>.zip.
C26_NoTwoArchivesOfOneNameInAFolder ==
    \A f \in DOMAIN drive, g \in DOMAIN drive :
        (/\ drive[f].parent = drive[g].parent
         /\ drive[f].name = drive[g].name) => f = g


\* the conflict that created Pending Upload 1: the form fields of its
\* conflict resolution page
FirstConflict == [existing |-> Own("p1").existing, semester |-> Own("p1").semester,
                  batch_year |-> "2024"]

\* C27: the resolve handler reads and removes no local file other than a
\* Pending Upload, whatever the token field of the request is, and when it
\* acts on the Drive for Pending Upload 1 the archive id, the semester and
\* the batch year it uses are those of the conflict that created it.
C27_ResolveBoundToItsConflict ==
    /\ SourceFile \in DOMAIN fs
    /\ fs[SourceFile] = SourceBytes
    /\ \A p \in Procs :
          LET l == Proc(p)
          IN l.pc = "done" =>
                /\ l.file_bytes # SourceBytes
                /\ l.calls # <<>> => l.form.temp # SourceFile
                /\ (l.calls # <<>> /\ l.form.temp = 1) =>
                      /\ l.form.existing = FirstConflict.existing
                      /\ l.form.semester = FirstConflict.semester
                      /\ l.form.batch_year = FirstConflict.batch_year

====
